---- MODULE Spec2Model ----
(***************************************************************************)
(* Pricing pipeline of legendary-data-pipeline:                            *)
(*   scripts/pricing/02_normalize_scryfall_prices.js  (Snapshot Normalizer)*)
(*   scripts/pricing/03_build_market_price_daily.js   (Daily Price Resolver)*)
(* Both scripts live in src/scripts/pricing/02_normalize_scryfall_prices.js *)
(* (lines 1-213 and 215-425).                                              *)
(*   scripts/pricing/10_rollup_market_values_daily.mjs (Sale-Comp Rollup)  *)
(*   scripts/revalueCollection.mjs, in src/unnamed/part_000 (revaluation)  *)
(*                                                                         *)
(* Representation.  A text is a sequence of one-character strings.  The    *)
(* SQL NULL of a text column is NullText, of the condition column SqlNull. *)
(* A table without a unique index (market_price_snapshots) is a bag of     *)
(* rows; a table with one (market_price_daily) is a set of rows whose key  *)
(* uniqueness the upsert has to maintain.  Days are numbered 1..MaxDay.    *)
(*                                                                         *)
(* Specifications.                                                         *)
(*   SpecNormalizer  Normalizer runs for any --date, failures, source data *)
(*                   replaced between and during runs, days passing        *)
(*   SpecBatch       one Normalizer run per source table in which one      *)
(*                   field holds any text of at most MaxLen characters     *)
(*   SpecResolver    Resolver runs with any options, snapshot rows of      *)
(*                   several vendors arriving between runs, days passing   *)
(*   SpecRank        Resolver runs on every partition of one or two rows   *)
(*   SpecScope       Resolver runs with any options on a fixed table       *)
(*   SpecRollup      Rollup runs, sales recorded between runs, days passing*)
(*   SpecWindow      Rollup runs, sales around both ends of the window     *)
(*   SpecStats       Rollup runs on every group of at most MaxSales        *)
(*                   sales                                                 *)
(*   SpecConcurrent  two Normalizer runs, or two Resolver runs, side by    *)
(*                   side                                                  *)
(*   SpecRevalue     revaluation runs, failures, the collection and the    *)
(*                   prices changing between runs, days passing            *)
(***************************************************************************)
EXTENDS Integers, Sequences, FiniteSets, Bags, TLC

VARIABLES
    scryfall,   \* scryfall_cards_raw: card id -> payload (<< >> or <<prices>>)
    snapshots,  \* market_price_snapshots as committed (a bag of rows)
    today,      \* the current UTC day
    npc,        \* Normalizer: position of the process
    asOf,       \* Normalizer: asOfDate, the text bound to $1
    work,       \* Normalizer: the table as the open transaction sees it
    upd,        \* Normalizer: upd.rowCount
    ins,        \* Normalizer: ins.rowCount
    exitCode,   \* Normalizer: exit status of the last finished invocation
    pre,        \* history: the committed table when the last run said BEGIN
    failedAt,   \* history: <<statement, cause>> of the failure of the run
    lastDay,    \* history: the day of the run that last read the source data;
                \*          0 if none did, if it failed, or if the source data
                \*          were replaced since it first read them
    repeat,     \* history: this run follows a committed run for the same day
                \*          and reads the source data that run read
    daily,      \* market_price_daily (a set of rows)
    rscope,     \* history: the currency and the days that the WHERE clause
                \*          admitted in the last Resolver run that succeeded
                \*          on the snapshot table as it is now
    rargs,      \* history: the options of the last Resolver run, in the
                \*          specifications that record them
    comps,      \* market_sales_comps (a set of rows, each with its id)
    mvalues,    \* market_values_daily (a set of rows)
    rolled,     \* history: the sales table and the day of the last Rollup run
    txn,        \* concurrent runs: for each of two processes its script, its
                \*          options, its position and what its open transaction
                \*          has written
    base,       \* history: the committed tables when the concurrent runs
                \*          started
    items,      \* user_collection_items (a set of rows, each with its id)
    cardPrices, \* the vendor price tables: card id -> price, in thousandths
    valuations, \* user_collection_daily_valuations (a bag of rows)
    reval,      \* revaluation: position of the process, what it has read and
                \*          computed, the tables as its open transaction sees
                \*          them
    vhist       \* history: the tables when the last revaluation said BEGIN,
                \*          the number of revaluations that committed since
                \*          the collection, the prices or the day last
                \*          changed, and what the first of them left

nvars == <<scryfall, snapshots, today, npc, asOf, work, upd, ins, exitCode,
           pre, failedAt, lastDay, repeat>>

\* the variables only the Normalizer writes
nlocal == <<scryfall, npc, asOf, work, upd, ins, exitCode, pre, failedAt,
            lastDay, repeat>>

rvars == <<daily, rscope>>

\* the variables neither the Normalizer nor every Resolver run writes
\* the tables of the Rollup
uvars == <<comps, mvalues, rolled>>

\* the processes that run side by side
cvars == <<txn, base>>

\* the tables and the process of the revaluation
evars == <<items, cardPrices, valuations, reval, vhist>>

xvars == <<rargs, uvars, cvars, evars>>

vars == <<nvars, rvars, xvars>>

----------------------------------------------------------------------------
(* Bounds of the model *)

MaxDay == 2

MaxLen == 4

MaxVal == 2

----------------------------------------------------------------------------
(* Values *)

NullText == <<"<NULL>">>

SqlNull == "<NULL>"

Days == 1 .. MaxDay

Digits == {"0", "1", "2", "3", "4", "5", "6", "7", "8", "9"}

DigitVal(c) ==
    CASE c = "0" -> 0 [] c = "1" -> 1 [] c = "2" -> 2 [] c = "3" -> 3
      [] c = "4" -> 4 [] c = "5" -> 5 [] c = "6" -> 6 [] c = "7" -> 7
      [] c = "8" -> 8 [] c = "9" -> 9

Int4Max == 2147483647

----------------------------------------------------------------------------
(* The value_cents CASE expression of the rows CTE *)

\* regexp_replace(t, '[^0-9.\-]', '', 'g')
Strip(t) == SelectSeq(t, LAMBDA c : c \in Digits \cup {".", "-"})

\* NULLIF(regexp_replace((prices->>'f')::text, ...), '')
Stripped(j) ==
    IF j = NullText THEN NullText
    ELSE IF Strip(j) = << >> THEN NullText ELSE Strip(j)

AllDigits(s) == \A i \in 1 .. Len(s) : s[i] \in Digits

\* position of the first "." of s, or Len(s) + 1
DotPos(s) ==
    IF \E i \in 1 .. Len(s) : s[i] = "."
    THEN CHOOSE i \in 1 .. Len(s) : s[i] = "." /\ \A k \in 1 .. i - 1 : s[k] # "."
    ELSE Len(s) + 1

\* what the cast ::numeric accepts of a text made of digits, "." and "-":
\* an optional sign, then digits with an optional point, at least one digit
IsNumeric(s) ==
    LET u == IF s # << >> /\ s[1] = "-" THEN Tail(s) ELSE s
        p == DotPos(u)
        ip == SubSeq(u, 1, p - 1)
        fp == SubSeq(u, p + 1, Len(u))
    IN  /\ AllDigits(ip)
        /\ AllDigits(fp)
        /\ Len(ip) + Len(fp) > 0

RECURSIVE DigitsVal(_)
DigitsVal(s) ==
    IF s = << >> THEN 0
    ELSE 10 * DigitsVal(SubSeq(s, 1, Len(s) - 1)) + DigitVal(s[Len(s)])

FracDigit(fp, i) == IF i <= Len(fp) THEN DigitVal(fp[i]) ELSE 0

\* variant: the cents are cut off, not rounded (FLOOR / ::int of a truncation)
RoundCentsTrunc(s) ==
    LET neg == s[1] = "-"
        u == IF neg THEN Tail(s) ELSE s
        p == DotPos(u)
        ip == SubSeq(u, 1, p - 1)
        fp == SubSeq(u, p + 1, Len(u))
        mag == 100 * DigitsVal(ip) + 10 * FracDigit(fp, 1) + FracDigit(fp, 2)
    IN  IF neg THEN 0 - mag ELSE mag

\* ROUND(s::numeric * 100): numeric rounding, ties away from zero
RoundCents(s) ==
    LET neg == s[1] = "-"
        u == IF neg THEN Tail(s) ELSE s
        p == DotPos(u)
        ip == SubSeq(u, 1, p - 1)
        fp == SubSeq(u, p + 1, Len(u))
        mag == 100 * DigitsVal(ip) + 10 * FracDigit(fp, 1) + FracDigit(fp, 2)
               + (IF FracDigit(fp, 3) >= 5 THEN 1 ELSE 0)
    IN  IF neg THEN 0 - mag ELSE mag

\* CASE WHEN NULLIF(...) IS NULL THEN NULL ELSE (ROUND(...::numeric * 100))::int END
\* kind "null": NULL; "int": v; "error": the statement raises (invalid input
\* syntax for type numeric, or integer out of range)
ValueCents(j) ==
    LET s == Stripped(j) IN
    IF s = NullText THEN [kind |-> "null", v |-> 0]
    ELSE IF ~IsNumeric(s) THEN [kind |-> "error", v |-> 0]
    ELSE IF RoundCents(s) > Int4Max \/ RoundCents(s) < 0 - Int4Max - 1
         THEN [kind |-> "error", v |-> 0]
    ELSE [kind |-> "int", v |-> RoundCents(s)]

----------------------------------------------------------------------------
(* Source data: market_items and scryfall_cards_raw *)

Fields == {"usd", "usd_foil", "usd_etched", "eur", "tix"}

\* the LATERAL VALUES list: field -> (currency, price_type)
FieldMap(f) ==
    CASE f = "usd"        -> [currency |-> "USD", price_type |-> "market"]
      [] f = "usd_foil"   -> [currency |-> "USD", price_type |-> "foil"]
      [] f = "usd_etched" -> [currency |-> "USD", price_type |-> "etched"]
      [] f = "eur"        -> [currency |-> "EUR", price_type |-> "market"]
      [] f = "tix"        -> [currency |-> "USD", price_type |-> "tix"]

\* public.market_items: items 1, 2 and 5 are Scryfall-mapped MTG items; 3 is
\* not MTG, 4 has another canonical source, 6 names a card never imported
MarketItems ==
    { [id |-> 1, game |-> "mtg", canonical_source |-> "scryfall", canonical_id |-> "c1"],
      [id |-> 2, game |-> "mtg", canonical_source |-> "scryfall", canonical_id |-> "c2"],
      [id |-> 3, game |-> "pokemon", canonical_source |-> "scryfall", canonical_id |-> "c3"],
      [id |-> 4, game |-> "mtg", canonical_source |-> "tcgplayer", canonical_id |-> "c3"],
      [id |-> 5, game |-> "mtg", canonical_source |-> "scryfall", canonical_id |-> "c5"],
      [id |-> 6, game |-> "mtg", canonical_source |-> "scryfall", canonical_id |-> "c9"] }

\* public.scryfall_cards_raw.id; c3 and c4 have no identity mapping, the
\* payload of c5 has no 'prices' key
Cards == {"c1", "c2", "c3", "c4", "c5"}

\* prices documents a Scryfall import can leave in payload->'prices'
DocGood ==
    [f \in Fields |->
        CASE f = "usd"        -> <<"1", ".", "5", "0">>
          [] f = "usd_foil"   -> <<"3", ".", "2", "5">>
          [] f = "usd_etched" -> NullText
          [] f = "eur"        -> <<"0", ".", "9", "9">>
          [] f = "tix"        -> <<"0", ".", "0", "2">>]

\* a later import of the same card: usd moved, usd_etched appeared
DocMoved ==
    [f \in Fields |->
        CASE f = "usd"        -> <<"$", "1", ".", "7", "5">>
          [] f = "usd_foil"   -> <<"3", ".", "2", "5">>
          [] f = "usd_etched" -> <<"5", ".", "0", "0">>
          [] f = "eur"        -> <<"0", ".", "9", "9">>
          [] f = "tix"        -> <<"0", ".", "0", "2">>]

\* usd_foil keeps two points after stripping, eur a lone minus sign
DocBad ==
    [f \in Fields |->
        CASE f = "usd"        -> <<"1", ".", "5", "0">>
          [] f = "usd_foil"   -> <<"1", ".", "2", ".", "3">>
          [] f = "usd_etched" -> <<"0">>
          [] f = "eur"        -> <<"-">>
          [] f = "tix"        -> NullText]

\* only tix is a price: empty, not a number, below half a cent, negative
DocSparse ==
    [f \in Fields |->
        CASE f = "usd"        -> << >>
          [] f = "usd_foil"   -> <<"n", "/", "a">>
          [] f = "usd_etched" -> <<"0", ".", "0", "0", "4">>
          [] f = "eur"        -> <<"-", "1", ".", "0", "0">>
          [] f = "tix"        -> <<"0", ".", "0", "2">>]

\* payloads: << >> has no 'prices' key, <<d>> has prices document d
NoPrices == << >>

Payloads(c) ==
    CASE c = "c1" -> {<<DocGood>>, <<DocMoved>>, <<DocBad>>}
      [] c = "c2" -> {<<DocSparse>>}
      [] c = "c3" -> {<<DocBad>>}
      [] c = "c4" -> {<<DocGood>>}
      [] c = "c5" -> {NoPrices}

----------------------------------------------------------------------------
(* The --date argument and the $1::date cast *)

Ymd(d) == [kind |-> "ymd", day |-> d]

Absent == [kind |-> "absent", day |-> 0]

\* argv: no --date, --date without a value (args.date = true), --date <text>
DateArgs ==
    {Absent, [kind |-> "flag", day |-> 0],
     [kind |-> "junk", day |-> 0]} \cup {Ymd(d) : d \in Days}

\* String(args.date || "").trim() || todayUtcYmd()
AsOfDate(arg, now) ==
    CASE arg.kind = "absent" -> Ymd(now)
      [] arg.kind = "flag"   -> [kind |-> "true", day |-> 0]
      [] OTHER               -> arg

\* $1::date
DateOk(t) == t.kind = "ymd"

\* the processes that run side by side
Procs == {1, 2}

\* no process runs beside another
NoTxn == [p \in Procs |-> [script |-> "none"]]

NoBase == <<EmptyBag, {}>>

\* the vendor price tables without a row
NoPriceTables == << >>

\* no revaluation runs
NoRevaluation == [pc |-> "idle"]

NoHistory == [pre |-> <<{}, EmptyBag>>, runs |-> 0, first |-> <<{}, EmptyBag>>]

\* no Rollup has run
NoRun == <<{}, 0>>

\* argv of an invocation without options
NoArgs ==
    [currency |-> "absent", allDates |-> FALSE, date |-> Absent,
     since |-> Absent, until |-> Absent]

\* the scope of no run
NoScope == [currency |-> "none", days |-> {}]

----------------------------------------------------------------------------
(* buildRowsCte *)

\* src CTE: market_items JOIN scryfall_cards_raw
SrcJoin(scry) ==
    { [market_item_id |-> mi.id, prices |-> scry[mi.canonical_id][1]] :
        mi \in { m \in MarketItems :
                    /\ m.game = "mtg"
                    /\ m.canonical_source = "scryfall"
                    /\ m.canonical_id \in DOMAIN scry
                    /\ scry[m.canonical_id] # NoPrices } }

BatchRow(s, f, d) ==
    [market_item_id |-> s.market_item_id,
     source         |-> "scryfall",
     as_of_date     |-> d,
     currency       |-> FieldMap(f).currency,
     price_type     |-> FieldMap(f).price_type,
     condition      |-> SqlNull,
     value_cents    |-> ValueCents(s.prices[f]).v,
     raw            |-> [prices |-> s.prices, key |-> f]]

\* the statement raises: the date does not parse, or a cast of the VALUES list fails
BatchError(scry, t) ==
    \/ ~DateOk(t)
    \/ \E s \in SrcJoin(scry), f \in Fields : ValueCents(s.prices[f]).kind = "error"

\* the date is converted when $1 is bound, before a row is computed
BatchErrorCause(scry, t) == IF ~DateOk(t) THEN "date" ELSE "cast"

\* variant: the WHERE clause of the rows CTE is missing
BatchRowsAll(scry, t) ==
    UNION { { BatchRow(s, f, t.day) : f \in Fields } : s \in SrcJoin(scry) }

\* rows CTE: WHERE v.value_cents IS NOT NULL AND v.value_cents > 0
BatchRows(scry, t) ==
    UNION { { BatchRow(s, f, t.day) :
                f \in { g \in Fields : /\ ValueCents(s.prices[g]).kind = "int"
                                       /\ ValueCents(s.prices[g]).v > 0 } } :
            s \in SrcJoin(scry) }

----------------------------------------------------------------------------
(* updateSql and insertSql *)

\* Key = (market_item_id, source, as_of_date, currency, price_type, condition)
KeyOf(r) ==
    <<r.market_item_id, r.source, r.as_of_date, r.currency, r.price_type, r.condition>>

RECURSIVE SumCopies(_, _)
SumCopies(S, B) ==
    IF S = {} THEN 0
    ELSE LET x == CHOOSE y \in S : TRUE IN B[x] + SumCopies(S \ {x}, B)

\* variant: the join of the UPDATE leaves out t.as_of_date = r.as_of_date
JoinedAnyDay(t, batch) ==
    IF \E r \in batch : KeyOf([r EXCEPT !.as_of_date = t.as_of_date]) = KeyOf(t)
    THEN LET r == CHOOSE q \in batch :
                    KeyOf([q EXCEPT !.as_of_date = t.as_of_date]) = KeyOf(t)
         IN  [t EXCEPT !.value_cents = r.value_cents, !.raw = r.raw]
    ELSE t

\* the row of the batch an existing row t joins with, else t itself
Joined(t, batch) ==
    IF \E r \in batch : KeyOf(r) = KeyOf(t)
    THEN LET r == CHOOSE q \in batch : KeyOf(q) = KeyOf(t)
         IN  [t EXCEPT !.value_cents = r.value_cents, !.raw = r.raw]
    ELSE t

\* UPDATE ... SET value_cents = r.value_cents, raw = r.raw FROM rows r WHERE <key>
UpdateTable(table, batch) ==
    LET S == BagToSet(table)
        T == { Joined(t, batch) : t \in S }
    IN  [u \in T |-> SumCopies({ t \in S : Joined(t, batch) = u }, table)]

UpdateCount(table, batch) ==
    SumCopies({ t \in BagToSet(table) : \E r \in batch : KeyOf(r) = KeyOf(t) }, table)

\* variant: NOT EXISTS compares the conditions with =, which is never true of
\* two NULLs
MissingNullUnsafe(table, batch) ==
    { r \in batch : ~\E t \in BagToSet(table) :
                        /\ KeyOf(t) = KeyOf(r)
                        /\ t.condition # SqlNull
                        /\ r.condition # SqlNull }

\* variant: NOT EXISTS leaves out t.as_of_date = r.as_of_date
MissingAnyDay(table, batch) ==
    { r \in batch : ~\E t \in BagToSet(table) :
                        KeyOf([t EXCEPT !.as_of_date = r.as_of_date]) = KeyOf(r) }

\* INSERT ... SELECT ... FROM rows r WHERE NOT EXISTS (<key>)
Missing(table, batch) ==
    { r \in batch : ~\E t \in BagToSet(table) : KeyOf(t) = KeyOf(r) }

\* variant: a plain INSERT ... SELECT of the batch, without NOT EXISTS
InsertTableBlind(table, batch) == table (+) SetToBag(batch)

InsertTable(table, batch) == table (+) SetToBag(Missing(table, batch))

----------------------------------------------------------------------------
(* The Normalizer process: main of 02_normalize_scryfall_prices.js *)

NInit ==
    /\ scryfall \in [Cards -> UNION { Payloads(c) : c \in Cards }]
    /\ \A c \in Cards : scryfall[c] \in Payloads(c)
    /\ snapshots = EmptyBag
    /\ today = 1
    /\ npc = "idle"
    /\ asOf = Ymd(1)
    /\ work = EmptyBag
    /\ upd = 0
    /\ ins = 0
    /\ exitCode = 0
    /\ pre = EmptyBag
    /\ failedAt = <<"none", "none">>
    /\ lastDay = 0
    /\ repeat = FALSE
    /\ daily = {}
    /\ rscope = NoScope
    /\ rargs = NoArgs
    /\ comps = {}
    /\ mvalues = {}
    /\ rolled = NoRun
    /\ items = {}
    /\ cardPrices = NoPriceTables
    /\ valuations = EmptyBag
    /\ reval = NoRevaluation
    /\ vhist = NoHistory
    /\ txn = NoTxn
    /\ base = NoBase

\* parseArgs, asOfDate, client.connect(), client.query("BEGIN")
NStart(arg) ==
    /\ npc \in {"idle", "exit0", "exit1"}
    /\ asOf' = AsOfDate(arg, today)
    /\ npc' = "begun"
    /\ work' = snapshots
    /\ pre' = snapshots
    /\ upd' = 0
    /\ ins' = 0
    /\ failedAt' = <<"none", "none">>
    /\ repeat' = FALSE
    /\ UNCHANGED <<scryfall, snapshots, today, exitCode, lastDay>>

\* const upd = await client.query(updateSql, [asOfDate])
NUpdate ==
    /\ npc = "begun"
    /\ IF BatchError(scryfall, asOf)
       THEN /\ npc' = "failed"
            /\ failedAt' = <<"update", BatchErrorCause(scryfall, asOf)>>
            /\ repeat' = FALSE
            /\ lastDay' = 0
            /\ UNCHANGED <<work, upd>>
       ELSE /\ npc' = "updated"
            /\ work' = UpdateTable(work, BatchRows(scryfall, asOf))
            /\ upd' = UpdateCount(work, BatchRows(scryfall, asOf))
            /\ repeat' = (lastDay = asOf.day)
            /\ lastDay' = asOf.day
            /\ UNCHANGED failedAt
    /\ UNCHANGED <<scryfall, snapshots, today, asOf, ins, exitCode, pre>>

\* const ins = await client.query(insertSql, [asOfDate])
NInsert ==
    /\ npc = "updated"
    /\ IF BatchError(scryfall, asOf)
       THEN /\ npc' = "failed"
            /\ failedAt' = <<"insert", BatchErrorCause(scryfall, asOf)>>
            /\ UNCHANGED <<work, ins>>
       ELSE /\ npc' = "inserted"
            /\ work' = InsertTable(work, BatchRows(scryfall, asOf))
            /\ ins' = Cardinality(Missing(work, BatchRows(scryfall, asOf)))
            /\ UNCHANGED failedAt
    /\ UNCHANGED <<scryfall, snapshots, today, asOf, upd, exitCode, pre,
                   lastDay, repeat>>

\* await client.query("COMMIT"); the process then ends with status 0
NCommit ==
    /\ npc = "inserted"
    /\ snapshots' = work
    /\ work' = EmptyBag
    /\ npc' = "exit0"
    /\ exitCode' = 0
    /\ UNCHANGED <<scryfall, today, asOf, upd, ins, pre, failedAt, lastDay,
                   repeat>>

\* a query of the transaction rejects for a reason of the store (connection
\* lost, constraint violated): control passes to the catch block
NStoreError ==
    /\ npc \in {"begun", "updated", "inserted"}
    /\ failedAt' = CASE npc = "begun" -> <<"update", "store">>
                     [] npc = "updated" -> <<"insert", "store">>
                     [] npc = "inserted" -> <<"commit", "store">>
    /\ npc' = "failed"
    /\ UNCHANGED <<scryfall, snapshots, today, asOf, work, upd, ins, exitCode,
                   pre, lastDay, repeat>>

\* variant: the statements ran outside a transaction, so ROLLBACK undoes nothing
Persisted(committed, uncommitted) == uncommitted

\* what ROLLBACK leaves in the committed table
RolledBack(committed, uncommitted) == committed

\* catch (e) { await client.query("ROLLBACK"); throw e } ... process.exit(1)
NRollback ==
    /\ npc = "failed"
    /\ snapshots' = RolledBack(snapshots, work)
    /\ work' = EmptyBag
    /\ npc' = "exit1"
    /\ exitCode' = 1
    /\ lastDay' = 0
    /\ repeat' = FALSE
    /\ UNCHANGED <<scryfall, today, asOf, upd, ins, pre, failedAt>>

\* the Scryfall import replaces the payload of a card
Sync(c, p) ==
    /\ p # scryfall[c]
    /\ scryfall' = [scryfall EXCEPT ![c] = p]
    /\ lastDay' = 0
    /\ repeat' = FALSE
    /\ UNCHANGED <<snapshots, today, npc, asOf, work, upd, ins, exitCode,
                   pre, failedAt>>

\* midnight UTC
Tick ==
    /\ today < MaxDay
    /\ today' = today + 1
    /\ UNCHANGED <<scryfall, snapshots, npc, asOf, work, upd, ins, exitCode,
                   pre, failedAt, lastDay, repeat>>

NNext ==
    \/ (\E arg \in DateArgs : NStart(arg)) /\ UNCHANGED <<rvars, xvars>>
    \/ NUpdate /\ UNCHANGED <<rvars, xvars>>
    \/ NInsert /\ UNCHANGED <<rvars, xvars>>
    \/ NCommit /\ UNCHANGED <<rvars, xvars>>
    \/ NStoreError /\ UNCHANGED <<rvars, xvars>>
    \/ NRollback /\ UNCHANGED <<rvars, xvars>>
    \/ (\E c \in Cards : \E p \in Payloads(c) : Sync(c, p)) /\ UNCHANGED <<rvars, xvars>>
    \/ Tick /\ UNCHANGED <<rvars, xvars>>

SpecNormalizer == NInit /\ [][NNext]_vars

----------------------------------------------------------------------------
(* The batch as a function of one price text: the Normalizer run on source *)
(* data in which one field of card c1 holds any text of at most MaxLen     *)
(* characters                                                              *)

Alphabet == {"0", "4", "5", ".", "-", "$"}

Texts == UNION { [1 .. k -> Alphabet] : k \in 0 .. MaxLen }

OneField(g, t) == [f \in Fields |-> IF f = g THEN t ELSE NullText]

BInit ==
    /\ \E g \in Fields : \E t \in Texts \cup {NullText} :
          scryfall = [c \in Cards |->
                        IF c = "c1" THEN <<OneField(g, t)>>
                        ELSE CHOOSE p \in Payloads(c) : TRUE]
    /\ snapshots = EmptyBag
    /\ today = 1
    /\ npc = "idle"
    /\ asOf = Ymd(1)
    /\ work = EmptyBag
    /\ upd = 0
    /\ ins = 0
    /\ exitCode = 0
    /\ pre = EmptyBag
    /\ failedAt = <<"none", "none">>
    /\ lastDay = 0
    /\ repeat = FALSE
    /\ daily = {}
    /\ rscope = NoScope
    /\ rargs = NoArgs
    /\ comps = {}
    /\ mvalues = {}
    /\ rolled = NoRun
    /\ items = {}
    /\ cardPrices = NoPriceTables
    /\ valuations = EmptyBag
    /\ reval = NoRevaluation
    /\ vhist = NoHistory
    /\ txn = NoTxn
    /\ base = NoBase

BNext ==
    \/ NStart(Absent) /\ UNCHANGED <<rvars, xvars>>
    \/ NUpdate /\ UNCHANGED <<rvars, xvars>>
    \/ NInsert /\ UNCHANGED <<rvars, xvars>>
    \/ NCommit /\ UNCHANGED <<rvars, xvars>>
    \/ NRollback /\ UNCHANGED <<rvars, xvars>>

SpecBatch == BInit /\ [][BNext]_vars

----------------------------------------------------------------------------
(* The Daily Price Resolver: main of 03_build_market_price_daily.js *)

\* argv: no --currency, or --currency <text>
CurrencyArgs == {"absent", "eur"}

ToUpperCase(c) ==
    CASE c = "usd" -> "USD"
      [] c = "eur" -> "EUR"
      [] OTHER     -> c

\* String(args.currency || "USD").toUpperCase()
Currency(arg) == IF arg = "absent" THEN "USD" ELSE ToUpperCase(arg)

\* String(args.date || today)
ResolverDate(arg, now) ==
    CASE arg.kind = "absent" -> Ymd(now)
      [] arg.kind = "flag"   -> [kind |-> "true", day |-> 0]
      [] OTHER               -> arg

\* argv: no --since / --until, or one with a date
BoundArgs == {Absent} \cup {Ymd(d) : d \in Days}

\* argv: no --date, or --date <text>
ResolverDateArgs == {Absent, [kind |-> "junk", day |-> 0]} \cup {Ymd(d) : d \in Days}

\* the command lines: --date with --all-dates is tried with the first day
\* only, --until without --all-dates is not tried
ResolverArgs ==
    { a \in [currency : CurrencyArgs, allDates : BOOLEAN, date : ResolverDateArgs,
             since : BoundArgs, until : BoundArgs] :
        IF a.allDates THEN a.date \in {Absent, Ymd(1)} ELSE a.until = Absent }

\* variant: s.as_of_date = $2::date is pushed whether or not --all-dates is set
WhereDateAlways(args, now) ==
    [currency |-> Currency(args.currency),
     on       |-> ResolverDate(args.date, now),
     since    |-> IF args.allDates THEN args.since ELSE Absent,
     until    |-> IF args.allDates THEN args.until ELSE Absent]

\* whereParts and params: the texts bound to the date parts, Absent for a
\* part that is left out
Where(args, now) ==
    [currency |-> Currency(args.currency),
     on       |-> IF args.allDates THEN Absent ELSE ResolverDate(args.date, now),
     since    |-> IF args.allDates THEN args.since ELSE Absent,
     until    |-> IF args.allDates THEN args.until ELSE Absent]

\* every $n::date of the statement can be cast
WhereOk(w) ==
    \A t \in {w.on, w.since, w.until} : t.kind \in {"absent", "ymd"}

\* WHERE ${whereSql}
InWhere(s, w) ==
    /\ s.currency = w.currency
    /\ w.on.kind = "ymd" => s.as_of_date = w.on.day
    /\ w.since.kind = "ymd" => s.as_of_date >= w.since.day
    /\ w.until.kind = "ymd" => s.as_of_date <= w.until.day

\* variant: tcgplayer and scryfall change places
SourceRankSwapped(src) ==
    CASE src = "tcgplayer"     -> 20
      [] src = "scryfall"      -> 10
      [] src = "cardmarket"    -> 30
      [] src = "pricecharting" -> 40
      [] src = "ebay"          -> 50
      [] src = "amazon"        -> 60
      [] OTHER                 -> 99

\* CASE s.source ... END
SourceRank(src) ==
    CASE src = "tcgplayer"     -> 10
      [] src = "scryfall"      -> 20
      [] src = "cardmarket"    -> 30
      [] src = "pricecharting" -> 40
      [] src = "ebay"          -> 50
      [] src = "amazon"        -> 60
      [] OTHER                 -> 99

\* CASE s.price_type ... END
PriceTypeRank(pt) ==
    CASE pt = "market"  -> 10
      [] pt = "trend"   -> 12
      [] pt = "mid"     -> 14
      [] pt = "avg_7d"  -> 16
      [] pt = "avg_30d" -> 18
      [] pt = "low"     -> 22
      [] pt = "high"    -> 24
      [] pt = "loose"   -> 30
      [] pt = "cib"     -> 32
      [] pt = "new"     -> 34
      [] pt = "graded"  -> 36
      [] pt = "foil"    -> 60
      [] pt = "etched"  -> 62
      [] pt = "tix"     -> 80
      [] OTHER          -> 90

\* variant: ORDER BY ..., s.value_cents ASC
BeforeValueAsc(a, b) ==
    \/ SourceRank(a.source) < SourceRank(b.source)
    \/ /\ SourceRank(a.source) = SourceRank(b.source)
       /\ \/ PriceTypeRank(a.price_type) < PriceTypeRank(b.price_type)
          \/ /\ PriceTypeRank(a.price_type) = PriceTypeRank(b.price_type)
             /\ a.value_cents < b.value_cents

\* ORDER BY <source rank> ASC, <price-type rank> ASC, s.value_cents DESC:
\* a sorts strictly before b
Before(a, b) ==
    \/ SourceRank(a.source) < SourceRank(b.source)
    \/ /\ SourceRank(a.source) = SourceRank(b.source)
       /\ \/ PriceTypeRank(a.price_type) < PriceTypeRank(b.price_type)
          \/ /\ PriceTypeRank(a.price_type) = PriceTypeRank(b.price_type)
             /\ a.value_cents > b.value_cents

\* variant: PARTITION BY s.market_item_id, s.currency
PartitionKeyNoDate(s) == <<s.market_item_id, s.currency>>

\* PARTITION BY s.market_item_id, s.currency, s.as_of_date
PartitionKey(s) == <<s.market_item_id, s.currency, s.as_of_date>>

\* the candidates CTE without rn
Candidates(table, w) == { s \in BagToSet(table) : InWhere(s, w) }

\* the rows of partition k that ROW_NUMBER() can number 1: no row of the
\* partition sorts strictly before them; which of several gets rn = 1 is left
\* to the executor
Firsts(cands, k) ==
    { s \in cands :
        /\ PartitionKey(s) = k
        /\ \A t \in cands : PartitionKey(t) = k => ~Before(t, s) }

\* variant: jsonb_build_object pairs 'source' with price_type and
\* 'price_type' with source
BestRowSwapped(s, now) ==
    [market_item_id |-> s.market_item_id,
     as_of_date     |-> s.as_of_date,
     currency       |-> s.currency,
     value_cents    |-> s.value_cents,
     confidence     |-> 70,
     sources_used   |-> <<[source      |-> s.price_type,
                           price_type  |-> s.source,
                           condition   |-> s.condition,
                           value_cents |-> s.value_cents]>>,
     method         |-> "priority_best_of_day",
     updated_at     |-> now]

\* the row of the best CTE for a candidate with rn = 1, and now()
BestRow(s, now) ==
    [market_item_id |-> s.market_item_id,
     as_of_date     |-> s.as_of_date,
     currency       |-> s.currency,
     value_cents    |-> s.value_cents,
     confidence     |-> 70,
     sources_used   |-> <<[source      |-> s.source,
                           price_type  |-> s.price_type,
                           condition   |-> s.condition,
                           value_cents |-> s.value_cents]>>,
     method         |-> "priority_best_of_day",
     updated_at     |-> now]

\* the results the best CTE can have: one row with rn = 1 for each partition
RECURSIVE Bests(_, _, _)
Bests(cands, keys, now) ==
    IF keys = {} THEN {{}}
    ELSE LET k == CHOOSE x \in keys : TRUE
         IN  { rest \cup {BestRow(s, now)} :
                   rest \in Bests(cands, keys \ {k}, now),
                   s \in Firsts(cands, k) }

\* ON CONFLICT (market_item_id, as_of_date, currency)
DailyKey(r) == <<r.market_item_id, r.as_of_date, r.currency>>

\* variant: the days on which an item of best has no row get a row of value 0
UpsertFilled(table, best) ==
    LET kept == { r \in table : \A b \in best : DailyKey(b) # DailyKey(r) } \cup best
    IN  kept \cup
        { [b EXCEPT !.as_of_date = d, !.value_cents = 0, !.sources_used = << >>] :
              b \in best,
              d \in { e \in Days : \A r \in kept : r.as_of_date # e } }

\* INSERT ... SELECT ... FROM best ON CONFLICT (...) DO UPDATE SET ...
Upsert(table, best) ==
    { r \in table : \A b \in best : DailyKey(b) # DailyKey(r) } \cup best

\* the currency and the days a WHERE clause admits
ScopeOf(w) ==
    [currency |-> w.currency,
     days     |-> { d \in Days :
                      InWhere([currency |-> w.currency, as_of_date |-> d], w) }]

\* one invocation: the single statement.  If a date text does not cast the
\* statement raises and the tables stay as they are (the process ends with
\* status 1).
Resolve(args) ==
    LET w == Where(args, today)
        cands == Candidates(snapshots, w)
    IN  /\ IF WhereOk(w)
           THEN /\ \E best \in Bests(cands, {PartitionKey(s) : s \in cands}, today) :
                      daily' = Upsert(daily, best)
                /\ rscope' = ScopeOf(w)
           ELSE UNCHANGED <<daily, rscope>>
        /\ UNCHANGED <<snapshots, today, nlocal>>

\* a snapshot row as a vendor's normalizer writes it
SnapshotRow(i, d, cur, src, pt, cond, v) ==
    [market_item_id |-> i, source |-> src, as_of_date |-> d, currency |-> cur,
     price_type |-> pt, condition |-> cond, value_cents |-> v,
     raw |-> [vendor |-> src]]

\* snapshot rows of several vendors for three (item, date, currency) keys
Feed ==
    {SnapshotRow(1, 1, "USD", "tcgplayer", "low", SqlNull, 900),
     SnapshotRow(1, 1, "USD", "scryfall", "market", SqlNull, 1234),
     SnapshotRow(1, 2, "USD", "shopA", "market", SqlNull, 5000),
     SnapshotRow(1, 2, "USD", "shopB", "market", SqlNull, 4000),
     SnapshotRow(2, 1, "EUR", "cardmarket", "trend", SqlNull, 650)}

\* a vendor's normalizer commits a row whose identity key is new
Ingest(r) ==
    /\ \A t \in BagToSet(snapshots) : KeyOf(t) # KeyOf(r)
    /\ snapshots' = snapshots (+) SetToBag({r})
    /\ rscope' = NoScope
    /\ UNCHANGED <<today, nlocal, daily>>

RNext ==
    \/ (\E args \in ResolverArgs : Resolve(args)) /\ UNCHANGED xvars
    \/ (\E r \in Feed : Ingest(r)) /\ UNCHANGED xvars
    \/ Tick /\ UNCHANGED <<rvars, xvars>>

RInit ==
    /\ NInit
    /\ scryfall = [c \in Cards |-> CHOOSE p \in Payloads(c) : TRUE]

SpecResolver == RInit /\ [][RNext]_vars

----------------------------------------------------------------------------
(* The ranking as a function of one partition: the Resolver run with no    *)
(* argument on a snapshot table that holds one or two rows of one          *)
(* (item, date, currency) key, of any source, price type and value up to   *)
(* MaxVal                                                                  *)

Sources ==
    {"tcgplayer", "scryfall", "cardmarket", "pricecharting", "ebay", "amazon",
     "shopA", "shopB"}

PriceTypes ==
    {"market", "trend", "mid", "avg_7d", "avg_30d", "low", "high", "loose",
     "cib", "new", "graded", "foil", "etched", "tix", "buylist"}

RankRows ==
    { SnapshotRow(1, 1, "USD", src, pt, SqlNull, v) :
          src \in Sources, pt \in PriceTypes, v \in 1 .. MaxVal }

RankInit ==
    /\ \E a \in RankRows : \E b \in RankRows :
          /\ a = b \/ KeyOf(a) # KeyOf(b)
          /\ snapshots = SetToBag({a, b})
    /\ scryfall = [c \in Cards |-> CHOOSE p \in Payloads(c) : TRUE]
    /\ today = 1
    /\ npc = "idle"
    /\ asOf = Ymd(1)
    /\ work = EmptyBag
    /\ upd = 0
    /\ ins = 0
    /\ exitCode = 0
    /\ pre = EmptyBag
    /\ failedAt = <<"none", "none">>
    /\ lastDay = 0
    /\ repeat = FALSE
    /\ daily = {}
    /\ rscope = NoScope
    /\ rargs = NoArgs
    /\ comps = {}
    /\ mvalues = {}
    /\ rolled = NoRun
    /\ items = {}
    /\ cardPrices = NoPriceTables
    /\ valuations = EmptyBag
    /\ reval = NoRevaluation
    /\ vhist = NoHistory
    /\ txn = NoTxn
    /\ base = NoBase

RankNext == Resolve(NoArgs) /\ UNCHANGED xvars

SpecRank == RankInit /\ [][RankNext]_vars

----------------------------------------------------------------------------
(* The scope as a function of the options: Resolver runs with any options  *)
(* on a snapshot table that does not change, the options of the last run   *)
(* kept as history                                                         *)

\* snapshot tables: all rows of the feed, those of day 1, those in USD
ScopeTables ==
    {SetToBag(Feed),
     SetToBag({ r \in Feed : r.as_of_date = 1 }),
     SetToBag({ r \in Feed : r.currency = "USD" })}

ScopeInit ==
    /\ snapshots \in ScopeTables
    /\ scryfall = [c \in Cards |-> CHOOSE p \in Payloads(c) : TRUE]
    /\ today = 1
    /\ npc = "idle"
    /\ asOf = Ymd(1)
    /\ work = EmptyBag
    /\ upd = 0
    /\ ins = 0
    /\ exitCode = 0
    /\ pre = EmptyBag
    /\ failedAt = <<"none", "none">>
    /\ lastDay = 0
    /\ repeat = FALSE
    /\ daily = {}
    /\ rscope = NoScope
    /\ rargs = NoArgs
    /\ comps = {}
    /\ mvalues = {}
    /\ rolled = NoRun
    /\ items = {}
    /\ cardPrices = NoPriceTables
    /\ valuations = EmptyBag
    /\ reval = NoRevaluation
    /\ vhist = NoHistory
    /\ txn = NoTxn
    /\ base = NoBase

ScopeNext ==
    \/ \E args \in ResolverArgs :
           Resolve(args) /\ rargs' = args /\ UNCHANGED <<uvars, cvars, evars>>
    \/ Tick /\ UNCHANGED <<rvars, xvars>>

SpecScope == ScopeInit /\ [][ScopeNext]_vars

----------------------------------------------------------------------------
(* Sale-Comp Rollup: scripts/pricing/10_rollup_market_values_daily.mjs     *)
(*                                                                         *)
(* A sale is a row of market_sales_comps: its id, card_key, grade,         *)
(* sold_price_usd and sold_at.  Amounts of money are counted in cents, so  *)
(* a numeric(12,2) value is an integer; the value of percentile_cont,      *)
(* which lies between two prices, is counted in quarters of a cent, which  *)
(* is exact for the fractions 0.25, 0.5 and 0.75.  Timestamps are days:    *)
(* now() is the day `today`, and so is CURRENT_DATE.                       *)

\* interval '180 days'
WindowDays == 180

\* the largest group of sales that SpecStats rolls up
MaxSales == 10

\* WHERE sold_at >= now() - interval '180 days'
InWindow(c, now) == c.sold_at >= now - WindowDays

\* a variant without the WHERE clause
RecentAll(table, now) == table

\* the CTE recent
Recent(table, now) == { c \in table : InWindow(c, now) }

\* GROUP BY card_key, grade
GroupKey(c) == <<c.card_key, c.grade>>

Groups(recent) == { GroupKey(c) : c \in recent }

GroupOf(recent, g) == { c \in recent : GroupKey(c) = g }

\* WITHIN GROUP (ORDER BY sold_price_usd): the prices of a group in
\* ascending order
RECURSIVE SortedPrices(_)
SortedPrices(S) ==
    IF S = {} THEN << >>
    ELSE LET m == CHOOSE c \in S :
                      \A d \in S : c.sold_price_usd <= d.sold_price_usd
         IN  <<m.sold_price_usd>> \o SortedPrices(S \ {m})

\* a variant that takes the nearest lower rank instead of interpolating
\* (percentile_disc)
PercentileDisc(q, v) ==
    LET pos == q * (Len(v) - 1)
    IN  4 * v[1 + (pos \div 4)]

\* percentile_cont(q/4) of the ascending prices v, in quarters of a cent:
\* the row number 1 + (q/4)(n-1), the price there if it is whole, else the
\* linear interpolation between the two prices around it
PercentileCont(q, v) ==
    LET pos == q * (Len(v) - 1)
        lo  == 1 + (pos \div 4)
        rem == pos % 4
    IN  IF rem = 0 THEN 4 * v[lo]
        ELSE 4 * v[lo] + rem * (v[lo + 1] - v[lo])

\* ::numeric(12,2) of a non-negative value given in quarters of a cent:
\* rounded to the nearest cent, a half away from zero
Numeric12_2(x4) == (x4 + 2) \div 4

\* a variant of the CASE whose second threshold is one sale too high
ConfidenceLate(cnt) ==
    IF cnt >= 10 THEN "A"
    ELSE IF cnt >= 6 THEN "B"
    ELSE IF cnt >= 2 THEN "C"
    ELSE "D"

\* CASE WHEN s.cnt >= 10 THEN 'A' WHEN s.cnt >= 5 THEN 'B'
\*      WHEN s.cnt >= 2 THEN 'C' ELSE 'D' END
Confidence(cnt) ==
    IF cnt >= 10 THEN "A"
    ELSE IF cnt >= 5 THEN "B"
    ELSE IF cnt >= 2 THEN "C"
    ELSE "D"

\* MAX(sold_at)
LastSaleAt(S) ==
    CHOOSE t \in { c.sold_at : c \in S } : \A c \in S : c.sold_at <= t

\* the rows that ORDER BY r.sold_at DESC LIMIT 1 may return: the query gives
\* no order to sales of one timestamp
LastSales(S) == { c \in S : \A d \in S : d.sold_at <= c.sold_at }

\* the row that the SELECT gives for the group g, `last` being the row that
\* the subquery returned
ValueRow(recent, g, last, now) ==
    LET S == GroupOf(recent, g)
        v == SortedPrices(S)
    IN  [ as_of_date       |-> now,
          card_key         |-> g[1],
          grade            |-> g[2],
          market_value_usd |-> Numeric12_2(PercentileCont(2, v)),
          range_low_usd    |-> Numeric12_2(PercentileCont(1, v)),
          range_high_usd   |-> Numeric12_2(PercentileCont(3, v)),
          last_sale_usd    |-> last.sold_price_usd,
          last_sale_at     |-> LastSaleAt(S),
          sales_count_180d |-> Cardinality(S),
          confidence       |-> Confidence(Cardinality(S)) ]

\* the results that the SELECT may give: one row for each group of recent
RECURSIVE ValueRows(_, _, _)
ValueRows(recent, gs, now) ==
    IF gs = {} THEN { {} }
    ELSE LET g == CHOOSE x \in gs : TRUE
         IN  { {ValueRow(recent, g, last, now)} \cup rest :
                   last \in LastSales(GroupOf(recent, g)),
                   rest \in ValueRows(recent, gs \ {g}, now) }

\* ON CONFLICT (as_of_date, card_key, grade)
ValueKey(r) == <<r.as_of_date, r.card_key, r.grade>>

\* a variant of the upsert that keeps the row it finds
UpsertValuesKeep(table, rows) ==
    table \cup { r \in rows :
                   \A t \in table : ValueKey(t) # ValueKey(r) }

\* INSERT ... ON CONFLICT ... DO UPDATE SET every derived field
UpsertValues(table, rows) ==
    { t \in table : \A r \in rows : ValueKey(r) # ValueKey(t) } \cup rows

\* main: the one statement of the script
Rollup ==
    \E rows \in ValueRows(Recent(comps, today),
                          Groups(Recent(comps, today)), today) :
        /\ mvalues' = UpsertValues(mvalues, rows)
        /\ rolled' = <<comps, today>>
        /\ UNCHANGED comps

Sale(id, key, grade, price, at) ==
    [ id |-> id, card_key |-> key, grade |-> grade,
      sold_price_usd |-> price, sold_at |-> at ]

\* the sales that are recorded between runs: of the ungraded card three
\* on days 0 and 1, two of them at the same time, and one that is 180 days
\* old on day 1; of the graded card one that is older than that, and one
\* on day 0
Market ==
    { Sale(1, "k1", "raw",   1000, 0),
      Sale(2, "k1", "raw",   2000, 1),
      Sale(3, "k1", "raw",   3000, 1),
      Sale(4, "k1", "raw",   4000, 1 - WindowDays),
      Sale(5, "k1", "PSA10",    5, 0 - WindowDays),
      Sale(6, "k1", "PSA10",    7, 0) }

\* another program records a sale
Record(c) ==
    /\ c \notin comps
    /\ comps' = comps \cup {c}
    /\ UNCHANGED <<mvalues, rolled>>

RollupInit ==
    /\ scryfall = [c \in Cards |-> CHOOSE p \in Payloads(c) : TRUE]
    /\ snapshots = EmptyBag
    /\ today = 1
    /\ npc = "idle"
    /\ asOf = Ymd(1)
    /\ work = EmptyBag
    /\ upd = 0
    /\ ins = 0
    /\ exitCode = 0
    /\ pre = EmptyBag
    /\ failedAt = <<"none", "none">>
    /\ lastDay = 0
    /\ repeat = FALSE
    /\ daily = {}
    /\ rscope = NoScope
    /\ rargs = NoArgs
    /\ comps = {}
    /\ mvalues = {}
    /\ rolled = NoRun
    /\ items = {}
    /\ cardPrices = NoPriceTables
    /\ valuations = EmptyBag
    /\ reval = NoRevaluation
    /\ vhist = NoHistory
    /\ txn = NoTxn
    /\ base = NoBase

RollupNext ==
    \/ Rollup /\ UNCHANGED <<nvars, rvars, rargs, cvars, evars>>
    \/ (\E c \in Market : Record(c)) /\ UNCHANGED <<nvars, rvars, rargs, cvars, evars>>
    \/ Tick /\ UNCHANGED <<rvars, xvars>>

SpecRollup == RollupInit /\ [][RollupNext]_vars

----------------------------------------------------------------------------
(* The statistics as a function of the sales: one Rollup run on one group  *)
(* of at most MaxSales sales in the window, of any prices of PriceList,    *)
(* with or without a sale that has left the window                         *)

PriceList == <<1, 2, 1000, 2000, 3000, 4000>>

\* the ascending sequences of n indices of PriceList
RECURSIVE Ascending(_)
Ascending(n) ==
    IF n = 0 THEN { << >> }
    ELSE UNION { { Append(s, j) :
                     j \in (IF s = << >> THEN 1 ELSE s[Len(s)])
                           .. Len(PriceList) } :
                 s \in Ascending(n - 1) }

\* the group with the prices of s, sold one a day up to day 1, or with the
\* last two sold at the same time
StatsGroup(s, tie) ==
    { Sale(i, "k1", "raw", PriceList[s[i]],
           IF tie /\ i <= 2 THEN 1 ELSE 2 - i) : i \in 1..Len(s) }

\* a sale of the same group that is 181 days old on day 1
StaleSale == Sale(0, "k1", "raw", 4000, 0 - WindowDays)

StatsInit ==
    /\ \E n \in 0..MaxSales : \E s \in Ascending(n) :
           \E old \in SUBSET {StaleSale}, tie \in BOOLEAN :
               comps = StatsGroup(s, tie) \cup old
    /\ mvalues = {}
    /\ rolled = NoRun
    /\ items = {}
    /\ cardPrices = NoPriceTables
    /\ valuations = EmptyBag
    /\ reval = NoRevaluation
    /\ vhist = NoHistory
    /\ txn = NoTxn
    /\ base = NoBase
    /\ scryfall = [c \in Cards |-> CHOOSE p \in Payloads(c) : TRUE]
    /\ snapshots = EmptyBag
    /\ today = 1
    /\ npc = "idle"
    /\ asOf = Ymd(1)
    /\ work = EmptyBag
    /\ upd = 0
    /\ ins = 0
    /\ exitCode = 0
    /\ pre = EmptyBag
    /\ failedAt = <<"none", "none">>
    /\ lastDay = 0
    /\ repeat = FALSE
    /\ daily = {}
    /\ rscope = NoScope
    /\ rargs = NoArgs

StatsNext == Rollup /\ UNCHANGED <<nvars, rvars, rargs, cvars, evars>>

SpecStats == StatsInit /\ [][StatsNext]_vars

----------------------------------------------------------------------------
(* The window: Rollup runs on any day between the recording of sales that  *)
(* lie around both ends of the window                                      *)

\* sales of one group that are 181 days old on day 1, 180 days old on day
\* 1, made on day 1, and timestamped after the last day; and a sale of
\* another group timestamped after the last day
Calendar ==
    { Sale(1, "k1", "raw",   1000, 0 - WindowDays),
      Sale(2, "k1", "raw",   2000, 1 - WindowDays),
      Sale(3, "k1", "raw",   3000, 1),
      Sale(4, "k1", "raw",   4000, MaxDay + 1),
      Sale(5, "k1", "PSA10",    5, MaxDay + 1) }

WindowNext ==
    \/ Rollup /\ UNCHANGED <<nvars, rvars, rargs, cvars, evars>>
    \/ (\E c \in Calendar : Record(c)) /\ UNCHANGED <<nvars, rvars, rargs, cvars, evars>>
    \/ Tick /\ UNCHANGED <<rvars, xvars>>

SpecWindow == RollupInit /\ [][WindowNext]_vars

----------------------------------------------------------------------------
(* Runs side by side: two Normalizer processes, or two Resolver processes, *)
(* whose statements interleave in any order.  The store runs each          *)
(* statement at READ COMMITTED: it sees the committed table and what its   *)
(* own transaction has written, and an UPDATE waits for a row that another *)
(* open transaction has updated.                                           *)

\* a Normalizer process that has parsed --date t
NormalizerTxn(t) ==
    [script |-> "normalizer", asOf |-> t, pc |-> "ready",
     del |-> EmptyBag, add |-> EmptyBag, locks |-> {}, met |-> FALSE]

\* a Resolver process with the options a
ResolverRun(a) == [script |-> "resolver", args |-> a, pc |-> "ready"]

Other(p) == CHOOSE q \in Procs : q # p

\* the transaction of p is open
Open(p) ==
    /\ txn[p].script = "normalizer"
    /\ txn[p].pc \in {"begun", "updated", "inserted", "failed"}

\* the table as a statement of p sees it: the committed rows but those that
\* p has replaced, and the rows that p has written
Visible(p) == (snapshots (-) txn[p].del) (+) txn[p].add

\* the variables that no step of the concurrent runs writes, but for the
\* tables
cidle == <<nlocal, today, rargs, uvars, base, evars>>

\* await client.query("BEGIN")
CBegin(p) ==
    /\ txn[p].script = "normalizer"
    /\ txn[p].pc = "ready"
    /\ txn' = IF Open(Other(p))
              THEN [txn EXCEPT ![p].pc = "begun", ![p].met = TRUE,
                               ![Other(p)].met = TRUE]
              ELSE [txn EXCEPT ![p].pc = "begun"]
    /\ UNCHANGED <<snapshots, rvars, cidle>>

\* const upd = await client.query(updateSql, [asOfDate])
CUpdate(p) ==
    LET rows == BatchRows(scryfall, txn[p].asOf)
        view == Visible(p)
        new  == UpdateTable(view, rows)
    IN  /\ txn[p].script = "normalizer"
        /\ txn[p].pc = "begun"
        /\ IF BatchError(scryfall, txn[p].asOf)
           THEN txn' = [txn EXCEPT ![p].pc = "failed"]
           ELSE /\ \A r \in rows : KeyOf(r) \notin txn[Other(p)].locks
                /\ txn' = [txn EXCEPT
                             ![p].pc = "updated",
                             ![p].del = snapshots (-) new,
                             ![p].add = new (-) snapshots,
                             ![p].locks =
                                 { KeyOf(t) : t \in
                                     { u \in BagToSet(view) :
                                         \E r \in rows : KeyOf(r) = KeyOf(u) } }]
        /\ UNCHANGED <<snapshots, rvars, cidle>>

\* const ins = await client.query(insertSql, [asOfDate])
CInsert(p) ==
    LET rows == BatchRows(scryfall, txn[p].asOf)
        new  == InsertTable(Visible(p), rows)
    IN  /\ txn[p].script = "normalizer"
        /\ txn[p].pc = "updated"
        /\ txn' = [txn EXCEPT ![p].pc = "inserted",
                              ![p].del = snapshots (-) new,
                              ![p].add = new (-) snapshots]
        /\ UNCHANGED <<snapshots, rvars, cidle>>

\* await client.query("COMMIT")
CCommit(p) ==
    /\ txn[p].script = "normalizer"
    /\ txn[p].pc = "inserted"
    /\ snapshots' = Visible(p)
    /\ txn' = [txn EXCEPT ![p].pc = "done", ![p].del = EmptyBag,
                          ![p].add = EmptyBag, ![p].locks = {}]
    /\ UNCHANGED <<rvars, cidle>>

\* catch (e) { await client.query("ROLLBACK"); throw e }
CRollback(p) ==
    /\ txn[p].script = "normalizer"
    /\ txn[p].pc = "failed"
    /\ snapshots' = RolledBack(snapshots, Visible(p))
    /\ txn' = [txn EXCEPT ![p].pc = "done", ![p].del = EmptyBag,
                          ![p].add = EmptyBag, ![p].locks = {}]
    /\ UNCHANGED <<rvars, cidle>>

\* const res = await client.query(sql, params): the one statement of a
\* Resolver process
CResolve(p) ==
    /\ txn[p].script = "resolver"
    /\ txn[p].pc = "ready"
    /\ Resolve(txn[p].args)
    /\ txn' = [txn EXCEPT ![p].pc = "done"]
    /\ UNCHANGED <<rargs, uvars, base, evars>>

\* the source data during the runs: the payload of c1 is any of its three
Imports ==
    { [c \in Cards |-> IF c = "c1" THEN <<d>>
                       ELSE CHOOSE q \in Payloads(c) : TRUE] :
          d \in {DocGood, DocMoved, DocBad} }

\* the snapshot table before the Normalizer runs: empty, or the rows that
\* runs on the first day, or on every day, wrote from an earlier import
EarlierTables ==
    LET scry == [c \in Cards |-> IF c = "c1" THEN <<DocGood>>
                                 ELSE CHOOSE q \in Payloads(c) : TRUE]
    IN  { EmptyBag,
          SetToBag(BatchRows(scry, Ymd(1))),
          SetToBag(UNION { BatchRows(scry, Ymd(d)) : d \in Days }) }

\* the Daily Price table before the Resolver runs: empty, or a row of an
\* earlier day's run for every key of the feed
EarlierDaily ==
    { {}, { [BestRow(s, 0) EXCEPT !.value_cents = 1,
                                  !.sources_used = << >>] : s \in Feed } }

\* the command lines of the Resolver processes: a date, or --all-dates with
\* or without bounds
ConcurrentArgs ==
    { a \in ResolverArgs :
        IF a.allDates THEN a.date = Absent ELSE a.since = Absent }

ConcurrentInit ==
    /\ scryfall \in Imports
    /\ \/ /\ snapshots \in EarlierTables
          /\ daily = {}
          /\ txn \in [Procs -> { NormalizerTxn(Ymd(d)) : d \in Days }]
       \/ /\ snapshots \in ScopeTables
          /\ daily \in EarlierDaily
          /\ txn \in [Procs -> { ResolverRun(a) : a \in ConcurrentArgs }]
    /\ base = <<snapshots, daily>>
    /\ today = 1
    /\ npc = "idle"
    /\ asOf = Ymd(1)
    /\ work = EmptyBag
    /\ upd = 0
    /\ ins = 0
    /\ exitCode = 0
    /\ pre = EmptyBag
    /\ failedAt = <<"none", "none">>
    /\ lastDay = 0
    /\ repeat = FALSE
    /\ rscope = NoScope
    /\ rargs = NoArgs
    /\ comps = {}
    /\ mvalues = {}
    /\ rolled = NoRun
    /\ items = {}
    /\ cardPrices = NoPriceTables
    /\ valuations = EmptyBag
    /\ reval = NoRevaluation
    /\ vhist = NoHistory

ConcurrentNext ==
    \E p \in Procs :
        \/ CBegin(p)
        \/ CUpdate(p)
        \/ CInsert(p)
        \/ CCommit(p)
        \/ CRollback(p)
        \/ CResolve(p)

SpecConcurrent == ConcurrentInit /\ [][ConcurrentNext]_vars

----------------------------------------------------------------------------
(* Collection revaluation: scripts/revalueCollection.mjs                   *)
(* (src/unnamed/part_000)                                                  *)
(*                                                                         *)
(* A price is counted in thousandths of the unit, an amount in cents.  The *)
(* price tables are kept as the maps that the three loaders return: for    *)
(* each game the price of the cards that have one.  The date that the      *)
(* store returns for CURRENT_DATE comes back to it as the same day.        *)

\* a number that may be null: << >> is null, <<n>> is n
NoNumber == << >>

\* a row of user_collection_items
Item(id, user, game, card, qty, cost) ==
    [ id |-> id, user_id |-> user, game |-> game, card_id |-> card,
      quantity |-> qty, cost_cents |-> cost,
      last_value_cents |-> NoNumber, updated_at |-> 0 ]

\* the items that users add to and remove from their collections: two of
\* one user, one of them bought at an unknown cost, and one of another user
Holdings ==
    { Item(1, "ua", "pokemon", "p1", 2, <<100>>),
      Item(2, "ua", "MTG",     "m1", 1, NoNumber),
      Item(3, "ub", "yugioh",  "y1", 3, <<50>>) }

\* the maps of the loaders: the price of p1 is 1.499 or none, that of m1
\* is 0.25 and that of y1 is 0.011
PriceTables ==
    { [ pokemonPrices |-> p, ygoPrices |-> ("y1" :> 11),
        mtgPrices |-> ("m1" :> 250) ] :
          p \in { << >>, ("p1" :> 1499) } }

\* String(item.game || "").toLowerCase()
LowerGame(g) ==
    CASE g = "MTG" -> "mtg"
      [] OTHER     -> g

\* map.get(cardId) ?? null
MapGet(map, card) ==
    IF card \in DOMAIN map THEN <<map[card]>> ELSE NoNumber

\* getPriceForItem
GetPriceForItem(item, maps) ==
    LET game == LowerGame(item.game)
    IN  CASE item.card_id = SqlNull -> NoNumber
          [] game = "pokemon" -> MapGet(maps.pokemonPrices, item.card_id)
          [] game \in {"ygo", "yugioh"} -> MapGet(maps.ygoPrices, item.card_id)
          [] game \in {"mtg", "magic"} -> MapGet(maps.mtgPrices, item.card_id)
          [] OTHER -> NoNumber

\* price != null && Number.isFinite(price) ? Math.round(price * 100) : null
PriceCents(price) ==
    IF price = NoNumber THEN NoNumber ELSE <<(price[1] + 5) \div 10>>

\* the array updates
Updates(its, maps) ==
    { [ id |-> i.id,
        last_value_cents |-> PriceCents(GetPriceForItem(i, maps)) ] :
          i \in its }

\* the aggregator of a user that has no item yet
NewAgg ==
    [ totalQty |-> 0, distinctItems |-> 0, totalCostCents |-> 0,
      totalValueCents |-> 0 ]

\* the body of the loop for one item
AddItem(agg, item, maps) ==
    LET cents == PriceCents(GetPriceForItem(item, maps))
    IN  [ totalQty        |-> agg.totalQty + item.quantity,
          distinctItems   |-> agg.distinctItems + 1,
          totalCostCents  |-> IF item.cost_cents # NoNumber
                              THEN agg.totalCostCents
                                     + item.cost_cents[1] * item.quantity
                              ELSE agg.totalCostCents,
          totalValueCents |-> IF cents # NoNumber
                              THEN agg.totalValueCents
                                     + cents[1] * item.quantity
                              ELSE agg.totalValueCents ]

\* the map perUser after the loop over the items
RECURSIVE PerUser(_, _)
PerUser(its, maps) ==
    IF its = {} THEN << >>
    ELSE LET i    == CHOOSE x \in its : TRUE
             rest == PerUser(its \ {i}, maps)
             agg  == IF i.user_id \in DOMAIN rest THEN rest[i.user_id]
                     ELSE NewAgg
         IN  (i.user_id :> AddItem(agg, i, maps)) @@ rest

\* UPDATE user_collection_items AS u SET last_value_cents = ...,
\* updated_at = NOW() FROM (VALUES ...) AS v WHERE u.id::text = v.id
UpdateItems(table, updates, now) ==
    { IF \E u \in updates : u.id = t.id
      THEN LET u == CHOOSE v \in updates : v.id = t.id
           IN  [t EXCEPT !.last_value_cents = u.last_value_cents,
                         !.updated_at = now]
      ELSE t : t \in table }

\* a variant of the DELETE that removes nothing
DeleteNothing(table, d) == table

\* DELETE FROM user_collection_daily_valuations WHERE as_of_date = $1
DeleteDay(table, d) ==
    LET keep == { r \in BagToSet(table) : r.as_of_date # d }
    IN  [ r \in keep |-> table[r] ]

\* INSERT INTO user_collection_daily_valuations ... VALUES one row per user
InsertDay(table, perUser, d) ==
    table (+) SetToBag(
        { [ user_id           |-> u,
            as_of_date        |-> d,
            total_quantity    |-> perUser[u].totalQty,
            distinct_items    |-> perUser[u].distinctItems,
            total_cost_cents  |-> perUser[u].totalCostCents,
            total_value_cents |-> perUser[u].totalValueCents ] :
              u \in DOMAIN perUser })

\* the process before its first run
IdleRevaluation ==
    [ pc |-> "idle", asOfDate |-> 0, updates |-> {}, perUser |-> << >>,
      witems |-> {}, wvals |-> EmptyBag, exitCode |-> 0 ]

\* the process after it has ended with the status code
Exited(code) ==
    [IdleRevaluation EXCEPT !.pc = IF code = 0 THEN "exit0" ELSE "exit1",
                            !.exitCode = code]

\* the history after a revaluation has ended with status 0 and left the
\* tables its and vals
Succeeded(h, its, vals) ==
    [ pre   |-> NoHistory.pre,
      runs  |-> IF h.runs < 2 THEN h.runs + 1 ELSE h.runs,
      first |-> IF h.runs = 0 THEN <<its, vals>> ELSE h.first ]

\* the variables that the revaluation leaves alone
vidle == <<nvars, rvars, rargs, uvars, cvars>>

\* main up to BEGIN: CURRENT_DATE, the items, the prices, the loop
VStart ==
    /\ reval.pc \in {"idle", "exit0", "exit1"}
    /\ IF items = {}
       THEN /\ reval' = Exited(0)
            /\ vhist' = Succeeded(vhist, items, valuations)
       ELSE /\ reval' = [ pc       |-> "loaded",
                          asOfDate |-> today,
                          updates  |-> Updates(items, cardPrices),
                          perUser  |-> PerUser(items, cardPrices),
                          witems   |-> {},
                          wvals    |-> EmptyBag,
                          exitCode |-> 0 ]
            /\ UNCHANGED vhist
    /\ UNCHANGED <<items, cardPrices, valuations, vidle>>

\* await client.query("BEGIN")
VBegin ==
    /\ reval.pc = "loaded"
    /\ reval' = [reval EXCEPT !.pc = "begun", !.witems = items,
                              !.wvals = valuations]
    /\ vhist' = [vhist EXCEPT !.pre = <<items, valuations>>]
    /\ UNCHANGED <<items, cardPrices, valuations, vidle>>

\* 2a) the UPDATE of user_collection_items
VUpdate ==
    /\ reval.pc = "begun"
    /\ reval' = [reval EXCEPT
                   !.pc = "updated",
                   !.witems = UpdateItems(reval.witems, reval.updates, today)]
    /\ UNCHANGED <<items, cardPrices, valuations, vhist, vidle>>

\* 2b) the DELETE of the rows of the date
VDelete ==
    /\ reval.pc = "updated"
    /\ reval' = [reval EXCEPT
                   !.pc = "deleted",
                   !.wvals = DeleteDay(reval.wvals, reval.asOfDate)]
    /\ UNCHANGED <<items, cardPrices, valuations, vhist, vidle>>

\* 2b) the INSERT of one row per user
VInsert ==
    /\ reval.pc = "deleted"
    /\ reval' = [reval EXCEPT
                   !.pc = "inserted",
                   !.wvals = InsertDay(reval.wvals, reval.perUser,
                                       reval.asOfDate)]
    /\ UNCHANGED <<items, cardPrices, valuations, vhist, vidle>>

\* await client.query("COMMIT")
VCommit ==
    /\ reval.pc = "inserted"
    /\ items' = reval.witems
    /\ valuations' = reval.wvals
    /\ reval' = Exited(0)
    /\ vhist' = Succeeded(vhist, reval.witems, reval.wvals)
    /\ UNCHANGED <<cardPrices, vidle>>

\* a statement of the transaction, or COMMIT, rejects: control passes to
\* the catch block
VStoreError ==
    /\ reval.pc \in {"begun", "updated", "deleted", "inserted"}
    /\ reval' = [reval EXCEPT !.pc = "failed"]
    /\ UNCHANGED <<items, cardPrices, valuations, vhist, vidle>>

\* catch (err) { await client.query("ROLLBACK") ... process.exitCode = 1 }
VRollback ==
    /\ reval.pc = "failed"
    /\ items' = RolledBack(items, reval.witems)
    /\ valuations' = RolledBack(valuations, reval.wvals)
    /\ reval' = Exited(1)
    /\ vhist' = [vhist EXCEPT !.pre = NoHistory.pre]
    /\ UNCHANGED <<cardPrices, vidle>>

\* the collection, the prices or the day change between two runs: the
\* revaluations that follow are the first on the new data
Changed ==
    /\ reval.pc \in {"idle", "exit0", "exit1"}
    /\ vhist' = NoHistory
    /\ UNCHANGED reval

\* a user adds an item to the collection
Acquire(i) ==
    /\ \A t \in items : t.id # i.id
    /\ items' = items \cup {i}
    /\ Changed
    /\ UNCHANGED <<cardPrices, valuations, vidle>>

\* a user removes an item from the collection
Dispose(i) ==
    /\ \E t \in items : t.id = i.id
    /\ items' = { t \in items : t.id # i.id }
    /\ Changed
    /\ UNCHANGED <<cardPrices, valuations, vidle>>

\* a price import replaces the price tables
Reprice(maps) ==
    /\ maps # cardPrices
    /\ cardPrices' = maps
    /\ Changed
    /\ UNCHANGED <<items, valuations, vidle>>

\* midnight
VTick ==
    /\ Tick
    /\ Changed
    /\ UNCHANGED <<items, cardPrices, valuations, rvars, rargs, uvars, cvars>>

RevalueInit ==
    /\ scryfall = [c \in Cards |-> CHOOSE p \in Payloads(c) : TRUE]
    /\ snapshots = EmptyBag
    /\ today = 1
    /\ npc = "idle"
    /\ asOf = Ymd(1)
    /\ work = EmptyBag
    /\ upd = 0
    /\ ins = 0
    /\ exitCode = 0
    /\ pre = EmptyBag
    /\ failedAt = <<"none", "none">>
    /\ lastDay = 0
    /\ repeat = FALSE
    /\ daily = {}
    /\ rscope = NoScope
    /\ rargs = NoArgs
    /\ comps = {}
    /\ mvalues = {}
    /\ rolled = NoRun
    /\ txn = NoTxn
    /\ base = NoBase
    /\ items = {}
    /\ cardPrices \in PriceTables
    /\ valuations = EmptyBag
    /\ reval = IdleRevaluation
    /\ vhist = NoHistory

RevalueNext ==
    \/ VStart
    \/ VBegin
    \/ VUpdate
    \/ VDelete
    \/ VInsert
    \/ VCommit
    \/ VStoreError
    \/ VRollback
    \/ \E i \in Holdings : Acquire(i)
    \/ \E i \in Holdings : Dispose(i)
    \/ \E maps \in PriceTables : Reprice(maps)
    \/ VTick

SpecRevalue == RevalueInit /\ [][RevalueNext]_vars

----------------------------------------------------------------------------
(* Properties of the Normalizer *)

RowsOf(table) == BagToSet(table)

\* number of rows of the table with identity key k
KeyCount(table, k) == SumCopies({ t \in RowsOf(table) : KeyOf(t) = k }, table)

\* the vendor text a snapshot row was computed from
TextOfRow(t) == t.raw.prices[t.raw.key]

\* prices->>f of the card a market item names, NULL without card or prices
TextOfItem(mi, f) ==
    IF mi.canonical_id \in Cards /\ scryfall[mi.canonical_id] # NoPrices
    THEN scryfall[mi.canonical_id][1][f]
    ELSE NullText

\* the item has an identity mapping
Mapped(mi) ==
    /\ mi.game = "mtg"
    /\ mi.canonical_source = "scryfall"
    /\ mi.canonical_id \in Cards

\* the text is a plain decimal number: digits with an optional point
PlainDecimal(x) == x # NullText /\ x # << >> /\ Strip(x) = x /\ IsNumeric(x) /\ x[1] # "-"

\* the text, stripped, is a number above zero
PositiveAmount(x) ==
    /\ x # NullText
    /\ Strip(x) # << >>
    /\ IsNumeric(Strip(x))
    /\ Strip(x)[1] # "-"
    /\ \E i \in 1 .. Len(Strip(x)) : Strip(x)[i] \in Digits \ {"0"}

RECURSIVE Pow10(_)
Pow10(k) == IF k = 0 THEN 1 ELSE 10 * Pow10(k - 1)

\* amount * 100 rounded to the nearest integer, for a text with PositiveAmount:
\* the amount is N / 10^k, N its digits and k the number of digits after the point
NearestCents(x) ==
    LET s == Strip(x)
        k == IF DotPos(s) > Len(s) THEN 0 ELSE Len(s) - DotPos(s)
        N == DigitsVal(SelectSeq(s, LAMBDA c : c \in Digits))
    IN  (200 * N + Pow10(k)) \div (2 * Pow10(k))

\* the (currency, price-type) pair the header documents for a field
DocumentedPair(f) ==
    CASE f = "usd"        -> <<"USD", "market">>
      [] f = "usd_foil"   -> <<"USD", "foil">>
      [] f = "usd_etched" -> <<"USD", "etched">>
      [] f = "eur"        -> <<"EUR", "market">>
      [] f = "tix"        -> <<"USD", "tix">>

\* the rows of the table computed from field f of item i
RowsFor(table, i, f) ==
    { t \in RowsOf(table) : t.market_item_id = i /\ t.raw.key = f }

\* C3: a Normalizer run that follows a committed run for the same date and
\* reads the same source data inserts no row and commits a table equal, row by
\* row (value and raw payload included), to the one it found at BEGIN.
C3_RerunChangesNothing ==
    (npc = "exit0" /\ repeat) => (ins = 0 /\ snapshots = pre)

\* a repeated run has committed, and its UPDATE matched existing rows
C3_RerunCommitted == npc = "exit0" /\ repeat /\ upd > 0

\* C4: from an empty table, after any sequence of Normalizer runs, the
\* committed table holds at most one row per identity key.
C4_OneRowPerKey ==
    \A t \in RowsOf(snapshots) : KeyCount(snapshots, KeyOf(t)) = 1

\* a run has committed that both updated existing rows and inserted new ones
C4_UpdatedAndInserted == npc = "exit0" /\ upd > 0 /\ ins > 0

\* C5 as stated: a snapshot row only ever comes from a text that is a plain
\* decimal number (no other character mixed in) with a positive amount.
C5_OnlyPlainDecimalsMakeRows ==
    \A t \in RowsOf(snapshots) : PlainDecimal(TextOfRow(t)) /\ t.value_cents > 0

\* C5 as amended: every snapshot row has a positive integer value and comes
\* from a text that, once every character other than digits, "." and "-" is
\* stripped, is a number above zero; a missing or empty text, a text without
\* digits, zero and negative amounts make no row.
C5_RowsComeFromPositiveAmounts ==
    \A t \in RowsOf(snapshots) \cup RowsOf(work) :
        /\ t.value_cents \in Nat \ {0}
        /\ PositiveAmount(TextOfRow(t))

\* a committed row of item 1 whose vendor text mixes digits with another character
C5_RowFromMixedText ==
    /\ npc = "exit0"
    /\ \E t \in RowsOf(snapshots) :
          t.market_item_id = 1 /\ Strip(TextOfRow(t)) # TextOfRow(t)

\* C6: a price field that does not parse as a number never makes a run fail:
\* a run ends with status 1 only for an unparseable date or a store error.
C6_ParseErrorNeverAborts == ~(npc = "exit1" /\ failedAt[2] = "cast")

\* C7: until COMMIT, and after a failure at any statement, the committed table
\* is the table the run found at BEGIN; a failed run ends with status 1.
C7_AllOrNothing ==
    /\ npc \in {"begun", "updated", "inserted", "failed", "exit1"} => snapshots = pre
    /\ npc = "exit1" => exitCode = 1

\* a run failed at COMMIT after its UPDATE matched rows and its INSERT added rows
C7_FailedAfterBothPhases ==
    npc = "exit1" /\ failedAt[1] = "commit" /\ upd > 0 /\ ins > 0

LaterRows(table, d) == { t \in RowsOf(table) : t.as_of_date > d }

\* C9 as stated: a committed run removes no snapshot row of the table it
\* found, and changes no row of day D that it found together with a row of a
\* later day.
C9_FrozenOnceLaterDayExists ==
    npc = "exit0" =>
        \A t \in RowsOf(pre) :
            /\ KeyCount(snapshots, KeyOf(t)) >= KeyCount(pre, KeyOf(t))
            /\ LaterRows(pre, t.as_of_date) # {}
                  => CopiesIn(t, snapshots) = CopiesIn(t, pre)

\* C9 as amended: the committed table changes only when a run commits; a
\* committed run removes no snapshot row of the table it found, and a run for
\* day D leaves every row of another day, earlier or later, as it found it.
C9_OtherDaysUntouched ==
    /\ npc # "exit0" => snapshots = pre
    /\ npc = "exit0" =>
          \A t \in RowsOf(pre) :
              /\ KeyCount(snapshots, KeyOf(t)) >= KeyCount(pre, KeyOf(t))
              /\ t.as_of_date # asOf.day
                    => CopiesIn(t, snapshots) = CopiesIn(t, pre)

\* a run for day D committed with rows of a later day in the table, and its
\* UPDATE matched rows of day D
C9_RewroteEarlierDay ==
    /\ npc = "exit0"
    /\ upd > 0
    /\ LaterRows(snapshots, asOf.day) # {}

----------------------------------------------------------------------------
(* Properties of the Resolver *)

\* the snapshot rows of the partition of a Daily Price row
PartitionOf(r) ==
    { s \in RowsOf(snapshots) : PartitionKey(s) = <<r.market_item_id, r.currency, r.as_of_date>> }

\* the Daily Price rows of the key of a snapshot row
DailyRowsOf(s) ==
    { r \in daily : DailyKey(r) = <<s.market_item_id, s.as_of_date, s.currency>> }

\* the key of the row is in the scope of the last run
InScope(s) == s.currency = rscope.currency /\ s.as_of_date \in rscope.days

\* b has the lexicographically smallest (source rank, price-type rank) of the
\* rows of part and, among the rows with these ranks, the largest value
IsBest(b, part) ==
    \A t \in part :
        \/ SourceRank(b.source) < SourceRank(t.source)
        \/ /\ SourceRank(b.source) = SourceRank(t.source)
           /\ PriceTypeRank(b.price_type) < PriceTypeRank(t.price_type)
        \/ /\ SourceRank(b.source) = SourceRank(t.source)
           /\ PriceTypeRank(b.price_type) = PriceTypeRank(t.price_type)
           /\ b.value_cents >= t.value_cents

\* C1: after a Resolver run, as long as the snapshot table stays as the run
\* read it, every (item, date, currency) key in the scope of the run that has
\* a snapshot has exactly one Daily Price row, and the value of that row is
\* the value of a snapshot with the smallest (source rank, price-type rank)
\* and, among those, the largest value.
C1_OneDailyRowWithBestValue ==
    \A s \in RowsOf(snapshots) :
        InScope(s) =>
            /\ Cardinality(DailyRowsOf(s)) = 1
            /\ \A r \in DailyRowsOf(s) :
                  \E b \in PartitionOf(r) :
                      IsBest(b, PartitionOf(r)) /\ r.value_cents = b.value_cents

\* a run has replaced the Daily Price row of a key by the larger of the values
\* of two snapshots of equal ranks
C1_LargerValueWon ==
    /\ rscope.currency = "USD"
    /\ 2 \in rscope.days
    /\ \E r \in daily :
          /\ r.as_of_date = 2
          /\ r.value_cents = 5000
          /\ \E t \in PartitionOf(r) : t.value_cents = 4000

\* C2: a run over an unchanged set of snapshots of a key records the same
\* winner (source, price type, condition, value) as the run before it.
C2_SameWinnerOnEveryRun ==
    [][\A r \in daily : \A q \in daily' :
          DailyKey(q) = DailyKey(r) => q.sources_used = r.sources_used]_vars

\* the documented order of trust, most trusted first
TrustOrder ==
    <<"tcgplayer", "scryfall", "cardmarket", "pricecharting", "ebay", "amazon">>

\* the place of a source in the order of trust, unknown sources last
Trust(src) ==
    IF \E i \in 1 .. Len(TrustOrder) : TrustOrder[i] = src
    THEN CHOOSE i \in 1 .. Len(TrustOrder) : TrustOrder[i] = src
    ELSE Len(TrustOrder) + 1

\* C10: the winner recorded for a key comes from a source that no snapshot
\* of the key precedes in the order of trust, whatever the values and the
\* price types are; among the snapshots of sources of the winner's place in
\* that order, none has a smaller price-type rank than the winner.
C10_SourcePriorityDominates ==
    \A r \in daily : \A s \in PartitionOf(r) :
        /\ Trust(r.sources_used[1].source) <= Trust(s.source)
        /\ Trust(r.sources_used[1].source) = Trust(s.source)
              => PriceTypeRank(r.sources_used[1].price_type)
                    <= PriceTypeRank(s.price_type)

\* an amazon snapshot has won over a snapshot of an unknown source that has a
\* larger value and a price type of smaller rank
C10_TrustedSourceWonWithLessValue ==
    \E r \in daily : \E s \in PartitionOf(r) :
        /\ r.sources_used[1].source = "amazon"
        /\ s.source = "shopA"
        /\ s.value_cents > r.value_cents
        /\ PriceTypeRank(s.price_type) < PriceTypeRank(r.sources_used[1].price_type)

\* the snapshot row b is the one the Daily Price row r records as its winner
Records(r, b) ==
    /\ b.market_item_id = r.market_item_id
    /\ b.currency = r.currency
    /\ b.as_of_date = r.as_of_date
    /\ r.sources_used[1] = [source      |-> b.source,
                            price_type  |-> b.price_type,
                            condition   |-> b.condition,
                            value_cents |-> b.value_cents]

\* C11: after a run of any scope, as long as the snapshot table stays as the
\* run read it, every key of day D in scope has a Daily Price row, and the
\* winner it records is a snapshot dated D before which no snapshot of the
\* item and currency dated D sorts; snapshots of the item dated otherwise,
\* whatever their ranks, have no part in it.
C11_WinnerDecidedWithinItsDay ==
    \A s \in RowsOf(snapshots) :
        InScope(s) =>
            /\ DailyRowsOf(s) # {}
            /\ \A r \in DailyRowsOf(s) :
                  \E b \in RowsOf(snapshots) :
                      /\ Records(r, b)
                      /\ \A t \in RowsOf(snapshots) :
                            /\ t.market_item_id = b.market_item_id
                            /\ t.currency = b.currency
                            /\ t.as_of_date = b.as_of_date
                            => ~Before(t, b)

\* a run over both days has recorded for day 2 a snapshot of an unknown
\* source although the item has a tcgplayer snapshot dated day 1
C11_OtherDayHadBetterRank ==
    /\ rscope.currency = "USD"
    /\ rscope.days = {1, 2}
    /\ \E r \in daily :
          /\ r.as_of_date = 2
          /\ r.sources_used[1].source = "shopA"
          /\ \E t \in RowsOf(snapshots) :
                /\ t.market_item_id = r.market_item_id
                /\ t.currency = r.currency
                /\ t.as_of_date = 1
                /\ t.source = "tcgplayer"

\* the rows of a Daily Price table without their updated timestamps
Unstamped(table) == { [r EXCEPT !.updated_at = 0] : r \in table }

\* C12: a run that follows a run of the same scope over the same snapshot
\* table leaves the set of Daily Price rows and the value, confidence,
\* sources_used and method of each row as they were, moves no updated
\* timestamp back and leaves one row per (item, date, currency) key.
C12_RerunKeepsEveryRow ==
    [][rscope # NoScope =>
          /\ Unstamped(daily') = Unstamped(daily)
          /\ \A r \in daily : \A q \in daily' :
                DailyKey(q) = DailyKey(r) => q.updated_at >= r.updated_at
          /\ \A q \in daily' : \A u \in daily' :
                DailyKey(q) = DailyKey(u) => q = u]_vars

\* C13: a day without any snapshot has no Daily Price row, whatever runs there
\* were, runs over a range that includes the day among them.
C13_NoRowForDayWithoutSnapshots ==
    \A d \in Days :
        (\A s \in RowsOf(snapshots) : s.as_of_date # d)
            => (\A r \in daily : r.as_of_date # d)

\* a run over days 1 and 2 has written a row for day 1 while the snapshot
\* table holds no row of day 2
C13_RangeRunOverEmptyDay ==
    /\ rscope.days = {1, 2}
    /\ \A s \in RowsOf(snapshots) : s.as_of_date # 2
    /\ \E r \in daily : r.as_of_date = 1 /\ r.currency = rscope.currency

\* C14: every Daily Price row has method 'priority_best_of_day', confidence
\* 70 and a sources_used list of one element, which carries the value of the
\* row and the source, price type and condition of one snapshot of the key
\* that has the best ranks and value of the key: the winner and no other.
C14_RowDescribesItsWinnerOnly ==
    \A r \in daily :
        /\ r.method = "priority_best_of_day"
        /\ r.confidence = 70
        /\ Len(r.sources_used) = 1
        /\ r.sources_used[1].value_cents = r.value_cents
        /\ \E b \in PartitionOf(r) : Records(r, b) /\ IsBest(b, PartitionOf(r))

\* vendor scryfall has a market price of 2 and the more trusted vendor
\* tcgplayer one of 1: the row has value 1 and lists tcgplayer
C14_TrustedVendorListedAlone ==
    \E r \in daily :
        /\ r.value_cents = 1
        /\ r.sources_used[1].source = "tcgplayer"
        /\ \E t \in PartitionOf(r) :
              t.source = "scryfall" /\ t.price_type = "market" /\ t.value_cents = 2

\* the currency a command line asks for
TargetCurrency(a) ==
    CASE a.currency = "absent" -> "USD"
      [] a.currency = "eur"    -> "EUR"
      [] OTHER                 -> a.currency

\* day d satisfies each bound the command line gives
WithinBounds(a, d) ==
    /\ a.since.kind = "ymd" => d >= a.since.day
    /\ a.until.kind = "ymd" => d <= a.until.day

\* the days a command line asks for, on day now: with --all-dates the days
\* within the bounds, else the day of --date or, without --date, today
TargetDays(a, now) ==
    IF a.allDates THEN { d \in Days : WithinBounds(a, d) }
    ELSE CASE a.date.kind = "absent" -> {now}
           [] a.date.kind = "ymd"    -> {a.date.day}
           [] OTHER                  -> {}

\* C15: a run with --all-dates, or with neither --all-dates nor a bound,
\* writes Daily Price rows of the target currency and of the target days only
\* (with --all-dates the days within the bounds, --date being ignored; else
\* the single date), writes a row for every such key that has a snapshot, and
\* leaves every row of another currency or day as it is.
C15_WritesItsScopeOnly ==
    [][(/\ today' = today
        /\ rargs'.allDates \/ (rargs'.since = Absent /\ rargs'.until = Absent))
       => /\ \A q \in daily' \ daily :
                /\ q.currency = TargetCurrency(rargs')
                /\ q.as_of_date \in TargetDays(rargs', today)
          /\ \A r \in daily :
                (\/ r.currency # TargetCurrency(rargs')
                 \/ r.as_of_date \notin TargetDays(rargs', today))
                => r \in daily'
          /\ \A s \in RowsOf(snapshots) :
                (/\ s.currency = TargetCurrency(rargs')
                 /\ s.as_of_date \in TargetDays(rargs', today))
                => \E q \in daily' :
                      /\ DailyKey(q) = <<s.market_item_id, s.as_of_date, s.currency>>
                      /\ q.updated_at = today]_vars

\* a run with --all-dates --since <day 2> --date <day 1> --currency eur on
\* day 1 of a table with EUR rows of day 1 only wrote nothing, after a run
\* with --currency eur alone had written the EUR row of day 1
C15_DateIgnoredWithAllDates ==
    /\ rargs.allDates
    /\ rargs.date = Ymd(1)
    /\ rargs.since = Ymd(2)
    /\ rargs.currency = "eur"
    /\ today = 2
    /\ \E r \in daily : r.currency = "EUR" /\ r.as_of_date = 1 /\ r.updated_at = 1
    /\ \A r \in daily : r.updated_at = 1

\* C16: after a run given --since and/or --until, with or without
\* --all-dates, every snapshot of the target currency dated within the bounds
\* has a Daily Price row.
C16_BoundsAloneSelectTheRange ==
    (/\ rargs.since.kind = "ymd" \/ rargs.until.kind = "ymd"
     /\ rargs.date.kind # "junk")
    => \A s \in RowsOf(snapshots) :
          (s.currency = TargetCurrency(rargs) /\ WithinBounds(rargs, s.as_of_date))
          => DailyRowsOf(s) # {}

----------------------------------------------------------------------------
(* Properties of the Rollup *)

\* the sales of the group of the row r that were in the window on r's day
SalesOf(r) ==
    GroupOf(Recent(comps, r.as_of_date), <<r.card_key, r.grade>>)

\* C17: the confidence of every row is a step function of the number of
\* sales of its group in the window: 'A' from 10 sales, 'B' for 5 to 9,
\* 'C' for 2 to 4, 'D' for 1; so the counts 2, 5 and 10 fall on the higher
\* grade and the grade never falls when the count grows.
C17_ConfidenceStepsWithCount ==
    \A r \in mvalues :
        LET n == Cardinality(SalesOf(r))
        IN  /\ n >= 1
            /\ n >= 10 => r.confidence = "A"
            /\ n \in 5..9 => r.confidence = "B"
            /\ n \in 2..4 => r.confidence = "C"
            /\ n = 1 => r.confidence = "D"

\* C17 witness: a group of exactly 10 sales was rolled up, and its row has
\* the grade 'A'
C17_BoundaryCountsRolledUp ==
    /\ mvalues # {}
    /\ \A r \in mvalues :
           /\ Cardinality(SalesOf(r)) = 10
           /\ r.confidence = "A"

\* the percentile q/4 of the ascending prices v by linear interpolation, in
\* quarters of a cent: at the position h = (q/4)(n-1) counted from the
\* first price, the k-th price plus the fraction h-(k-1) of the step to the
\* next one
Interpolated(q, v) ==
    LET n == Len(v)
        k == CHOOSE i \in 1..n : 4 * (i - 1) <= q * (n - 1)
                                  /\ q * (n - 1) < 4 * i
        f == q * (n - 1) - 4 * (k - 1)
    IN  4 * v[k] + f * (v[IF k < n THEN k + 1 ELSE n] - v[k])

\* the amount c of cents is the value x4, given in quarters of a cent,
\* rounded to 2 decimals: no other amount is nearer
RoundedTo2(c, x4) == 4 * c - x4 \in -2..2

MarketGroups == { GroupKey(c) : c \in Market }

\* the recorded sales of the group g that are at most 180 days old on day d
WithinWindow(g, d) ==
    { c \in comps : GroupKey(c) = g /\ d - c.sold_at <= WindowDays }

\* the rows of the table for the group g and the day d
ValueRowsOf(table, g, d) ==
    { r \in table : ValueKey(r) = <<d, g[1], g[2]>> }

LastSaleIsOfLatest(r) ==
    /\ \E c \in SalesOf(r) :
           /\ c.sold_at = r.last_sale_at
           /\ c.sold_price_usd = r.last_sale_usd
    /\ \A d \in SalesOf(r) : d.sold_at <= r.last_sale_at

\* C20: after every run on unchanged sales the last-sale price of every row
\* is the price of a sale of its group at the recorded last-sale timestamp,
\* which is the latest of the group, and it is the price that the run before
\* recorded, also when several sales share that timestamp.
C20_LastSaleLatestAndSameEveryRun ==
    [][ \A r2 \in mvalues' :
            /\ LastSaleIsOfLatest(r2)
            /\ \A r \in mvalues :
                   ValueKey(r) = ValueKey(r2) =>
                       r2.last_sale_usd = r.last_sale_usd ]_vars

\* the first half of C20 alone: every recorded last sale is a latest sale
C20_LastSaleIsALatestSale == \A r \in mvalues : LastSaleIsOfLatest(r)

\* two sales at the latest timestamp of a group differ in price, and the
\* row has the higher one
C20_TiedLatestSales ==
    \E r \in mvalues :
        \E c \in SalesOf(r) :
            /\ c.sold_at = r.last_sale_at
            /\ c.sold_price_usd < r.last_sale_usd

\* the groups that have sales in the calendar
CalendarGroups == { GroupKey(c) : c \in Calendar }

\* the recorded sales of the group g whose timestamp lies in the 180 days
\* that end on day d
TrailingWindow(g, d) ==
    { c \in comps : /\ GroupKey(c) = g
                    /\ d - WindowDays <= c.sold_at
                    /\ c.sold_at <= d }

\* the row r counts the sales of S, has the 50th, 25th and 75th percentile
\* of their prices, and has the price and the timestamp of a latest of them
BuiltFrom(r, S) ==
    /\ r.sales_count_180d = Cardinality(S)
    /\ RoundedTo2(r.market_value_usd, Interpolated(2, SortedPrices(S)))
    /\ RoundedTo2(r.range_low_usd, Interpolated(1, SortedPrices(S)))
    /\ RoundedTo2(r.range_high_usd, Interpolated(3, SortedPrices(S)))
    /\ \E c \in S : /\ c.sold_at = r.last_sale_at
                    /\ c.sold_price_usd = r.last_sale_usd
                    /\ \A d \in S : d.sold_at <= c.sold_at

\* C21: after a run, the row of every group for the day is built from
\* exactly the sales of the group whose timestamp lies in the 180 days that
\* end on that day: neither a sale older than 180 days nor a sale
\* timestamped after the day enters the statistics, the count or the last
\* sale, and a group without a sale in those days has no row.
C21_OnlyTrailingWindowContributes ==
    [][ (comps' = comps /\ today' = today) =>
          \A g \in CalendarGroups :
              LET S == TrailingWindow(g, today)
                  R == ValueRowsOf(mvalues', g, today)
              IN  /\ S = {} => R = {}
                  /\ \A r \in R : BuiltFrom(r, S) ]_vars

\* the lower end of C21 alone: the row of every group for the day is built
\* from exactly the sales that are at most 180 days old on that day
C21_OlderSalesExcluded ==
    [][ (comps' = comps /\ today' = today) =>
          \A g \in CalendarGroups :
              LET S == WithinWindow(g, today)
                  R == ValueRowsOf(mvalues', g, today)
              IN  /\ S = {} => R = {}
                  /\ \A r \in R : BuiltFrom(r, S) ]_vars

\* a row for day 1 has a last sale that is timestamped after day 1
C21_FutureSaleRolledUp ==
    \E r \in mvalues : r.as_of_date = 1 /\ r.last_sale_at > 1

\* no two rows of the table have the same (as_of_date, card_key, grade)
OneRowPerKey(table) ==
    \A r, t \in table : ValueKey(r) = ValueKey(t) => r = t

\* the rows of the table of a day before d
EarlierRows(table, d) == { r \in table : r.as_of_date < d }

\* what a run on unchanged sales leaves behind: one row per key; for every
\* group with sales in the window a row for the day, built from those sales
\* and graded by their number; every row of an earlier day as it was
RunWritesTheDay ==
    /\ OneRowPerKey(mvalues')
    /\ \A g \in MarketGroups :
           LET S == WithinWindow(g, today)
           IN  S # {} =>
                 \E r \in ValueRowsOf(mvalues', g, today) :
                     /\ BuiltFrom(r, S)
                     /\ Cardinality(S) >= 10 => r.confidence = "A"
                     /\ Cardinality(S) \in 5..9 => r.confidence = "B"
                     /\ Cardinality(S) \in 2..4 => r.confidence = "C"
                     /\ Cardinality(S) = 1 => r.confidence = "D"
    /\ EarlierRows(mvalues', today) = EarlierRows(mvalues, today)

\* C22: after every run the table has one row per (as_of_date, card_key,
\* grade), with a row for every group that was rolled up; the run overwrites
\* the derived fields of the day's rows and leaves every row of an earlier
\* day unchanged; and a run that follows a run of the same day on the same
\* sales leaves the whole table unchanged.
C22_OneRowPerKeyAndRerunChangesNothing ==
    [][ (comps' = comps /\ today' = today) =>
          /\ RunWritesTheDay
          /\ rolled = <<comps, today>> => mvalues' = mvalues ]_vars

\* a table that differs from the other at most in last-sale prices
SameButLastSalePrice(t1, t2) ==
    /\ \A r \in t1 : \E t \in t2 : r = [t EXCEPT !.last_sale_usd = r.last_sale_usd]
    /\ \A t \in t2 : \E r \in t1 : t = [r EXCEPT !.last_sale_usd = t.last_sale_usd]

\* C22 without the last-sale price: a re-run on the same sales changes at
\* most last-sale prices, and none where the latest sale is the only one of
\* its timestamp
C22_RerunChangesButTiedLastSale ==
    [][ (comps' = comps /\ today' = today) =>
          /\ RunWritesTheDay
          /\ rolled = <<comps, today>> =>
               /\ SameButLastSalePrice(mvalues', mvalues)
               /\ \A r \in mvalues' \ mvalues :
                      Cardinality({ c \in WithinWindow(<<r.card_key, r.grade>>, today) :
                                      c.sold_at = r.last_sale_at }) > 1 ]_vars

\* a row of day 1 stands beside a row of day 2 of the same group, and the
\* last run was a run of day 2
C22_EarlierDayKept ==
    /\ rolled[2] = 2
    /\ \E r, t \in mvalues :
           /\ r.as_of_date = 1 /\ t.as_of_date = 2
           /\ GroupKey(r) = GroupKey(t)
           /\ r.sales_count_180d # t.sales_count_180d

----------------------------------------------------------------------------
(* Properties of runs side by side *)

\* both processes have ended
AllDone == \A p \in Procs : txn[p].script # "none" /\ txn[p].pc = "done"

\* the snapshot table after a Normalizer run for the date t that runs alone
RunAlone(table, t) ==
    IF BatchError(scryfall, t) THEN table
    ELSE InsertTable(UpdateTable(table, BatchRows(scryfall, t)),
                     BatchRows(scryfall, t))

\* the Daily Price tables that a Resolver run with the options a, running
\* alone, can leave
ResolveAlone(table, a) ==
    LET w == Where(a, today)
        cands == Candidates(snapshots, w)
    IN  IF WhereOk(w)
        THEN { Upsert(table, best) :
                 best \in Bests(cands, {PartitionKey(c) : c \in cands}, today) }
        ELSE { table }

\* the Daily Price tables that the run with the options a followed by the
\* run with the options b can leave
OneAfterTheOther(a, b) ==
    UNION { ResolveAlone(d, b) : d \in ResolveAlone(base[2], a) }

\* the two command lines ask for different currencies or for no common day
DisjointScopes(a, b) ==
    \/ TargetCurrency(a) # TargetCurrency(b)
    \/ TargetDays(a, today) \cap TargetDays(b, today) = {}

\* two Normalizer runs for different dates have ended: the table is what
\* either order of the two runs alone leaves, and every row of either batch
\* is in it once, alone with its identity key
NormalizersAsInSequence ==
    LET t1 == txn[1].asOf
        t2 == txn[2].asOf
    IN  /\ snapshots = RunAlone(RunAlone(base[1], t1), t2)
        /\ snapshots = RunAlone(RunAlone(base[1], t2), t1)
        /\ ~BatchError(scryfall, t1) =>
             \A r \in BatchRows(scryfall, t1) \cup BatchRows(scryfall, t2) :
                 /\ KeyCount(snapshots, KeyOf(r)) = 1
                 /\ r \in RowsOf(snapshots)
        /\ daily = base[2]

\* two Resolver runs of disjoint scopes have ended: the table is one that
\* either order of the two runs alone can leave, it has one row per key, and
\* every key of either scope that has a snapshot has a row of a best snapshot
ResolversAsInSequence ==
    LET a1 == txn[1].args
        a2 == txn[2].args
    IN  /\ daily \in OneAfterTheOther(a1, a2)
        /\ daily \in OneAfterTheOther(a2, a1)
        /\ \A r, t \in daily : DailyKey(r) = DailyKey(t) => r = t
        /\ \A a \in {a1, a2} :
             WhereOk(Where(a, today)) =>
               \A c \in RowsOf(snapshots) :
                   (c.currency = TargetCurrency(a)
                      /\ c.as_of_date \in TargetDays(a, today)) =>
                     \E r \in DailyRowsOf(c) :
                         /\ r.updated_at = today
                         /\ \E b \in PartitionOf(r) :
                                /\ IsBest(b, PartitionOf(r))
                                /\ r.value_cents = b.value_cents
        /\ snapshots = base[1]

\* C23: when two Normalizer runs for different dates, or two Resolver runs
\* for different dates or currencies, whose statements interleaved in any
\* order, have ended, the snapshot table and the Daily Price table are
\* what the two runs leave when one runs after the other, in either order;
\* no identity key is there twice and no row of either run is missing.
C23_DisjointRunsAsInSequence ==
    AllDone =>
      /\ (txn[1].script = "normalizer" /\ txn[1].asOf # txn[2].asOf) =>
             NormalizersAsInSequence
      /\ (txn[1].script = "resolver"
            /\ DisjointScopes(txn[1].args, txn[2].args)) =>
             ResolversAsInSequence

\* C23 witness: two Normalizer transactions for different dates were open
\* at the same time, over a table that had rows of both dates from an
\* earlier import, and both have committed
C23_OverlappingTransactionsCommitted ==
    /\ AllDone
    /\ txn[1].script = "normalizer"
    /\ txn[1].asOf # txn[2].asOf
    /\ txn[1].met /\ txn[2].met
    /\ base[1] # EmptyBag
    /\ snapshots # base[1]

\* C23 for the same date: Normalizer runs for one date side by side
C23_SameDateAsInSequence ==
    (AllDone /\ txn[1].script = "normalizer") => NormalizersAsInSequence

----------------------------------------------------------------------------
(* Properties of the revaluation *)

\* the users that own items of the collection
Owners == { i.user_id : i \in items }

\* what an item adds to the quantity, the cost and the value of its owner
Amount(i, what) ==
    LET cents == PriceCents(GetPriceForItem(i, cardPrices))
    IN  CASE what = "quantity" -> i.quantity
          [] what = "cost" -> IF i.cost_cents = NoNumber THEN 0
                              ELSE i.cost_cents[1] * i.quantity
          [] what = "value" -> IF cents = NoNumber THEN 0
                               ELSE cents[1] * i.quantity

RECURSIVE Total(_, _)
Total(S, what) ==
    IF S = {} THEN 0
    ELSE LET i == CHOOSE x \in S : TRUE
         IN  Amount(i, what) + Total(S \ {i}, what)

\* the rows of the valuation table for the day d, each with its number
DayRows(table, d) ==
    { <<r, table[r]>> : r \in { t \in BagToSet(table) : t.as_of_date = d } }

\* the table has one row for the user u and today, with the totals of the
\* items of u
OneRowWithTotals(u) ==
    LET mine == { i \in items : i.user_id = u }
        rows == { r \in BagToSet(valuations) :
                    r.user_id = u /\ r.as_of_date = today }
    IN  \E r \in rows :
            /\ rows = {r}
            /\ valuations[r] = 1
            /\ r.total_quantity = Total(mine, "quantity")
            /\ r.distinct_items = Cardinality(mine)
            /\ r.total_cost_cents = Total(mine, "cost")
            /\ r.total_value_cents = Total(mine, "value")

\* the tables are as the first revaluation of today's collection and
\* prices left them
AsAfterFirstRun ==
    /\ \A u \in Owners : OneRowWithTotals(u)
    /\ DayRows(valuations, today) = DayRows(vhist.first[2], today)
    /\ \A i \in items :
           \E f \in vhist.first[1] :
               f.id = i.id /\ f.last_value_cents = i.last_value_cents

\* C24: as long as the collection, the prices and the day stay as they
\* were when a revaluation succeeded, after any further revaluations the
\* valuation table has exactly one row for today for every user that owns
\* items, with the totals that the first run recorded, and the last values
\* of the items are those of the first run; and a run that fails after
\* BEGIN leaves the items and the valuation table as they were at BEGIN.
C24_RevaluationIdempotentAndAtomic ==
    [][ /\ vhist'.runs >= 1 => AsAfterFirstRun'
        /\ reval.pc = "failed" =>
             /\ items' = vhist.pre[1]
             /\ valuations' = vhist.pre[2] ]_vars

\* C24 witness: two revaluations of the items of two users succeeded, and
\* a third one failed after BEGIN and has ended with status 1
C24_FailedRerunAfterTwoRuns ==
    /\ reval.pc = "exit1"
    /\ vhist.runs = 2
    /\ Cardinality(Owners) = 2
    /\ \A i \in items : i.card_id # "m1" => i.last_value_cents # NoNumber

\* the strict half of C24: today's rows are rows of owners only
C24_NoRowWithoutOwner ==
    vhist.runs >= 1 =>
        \A r \in BagToSet(valuations) :
            r.as_of_date = today => r.user_id \in Owners

====
